---------------------------- MODULE Spec2Model ----------------------------
(***************************************************************************)
(* Model of gst-webrtcredux: the SDP parser and serialiser                 *)
(* (src/src/webrtcredux/sdp.rs), the WebRtcRedux element                   *)
(* (src/src/webrtcredux/imp.rs) and its sender                             *)
(* (src/src/webrtcredux/sender/imp.rs).                                    *)
(*                                                                         *)
(* A text is a sequence of characters (one-character strings); "\r" and    *)
(* "\n" are the two terminator characters.  A result of a fallible call is *)
(* Ok(v), Err(e) (a returned ParseError) or Panic(why) (a Rust panic: an   *)
(* index out of range, unwrap of None, unreachable!()).  Unsigned integers *)
(* are kept as their canonical decimal digit sequences, so the 64-bit      *)
(* range of usize is exact.                                                *)
(***************************************************************************)
EXTENDS Integers, Sequences, FiniteSets, TLC

\* The SDP caller: its text, its position and its results.
VARIABLES lines, ending, trailing, text, pc, doc, out, doc2

\* The WebRtcRedux element (src/src/webrtcredux/imp.rs): its fields, its
\* pads, the threads that run its operations, and the first panic.
VARIABLES state, webrtc_state, webrtc_settings, canceller, abort_flag,
          pads, tracks, created, sc, app, rel, ev, ret, fault

\* The WebRtcReduxSender element (src/src/webrtcredux/sender/imp.rs): its
\* state, the add_info call, the tasks it spawned with their on_connect
\* channels, the threads that change its state and render buffers, the
\* clock, the last return of change_state and the first panic.
VARIABLES sender, add, spawned, cs, rn, clock, sender_ret, sender_fault

sdp_vars == <<lines, ending, trailing, text, pc, doc, out, doc2>>

element_vars == <<state, webrtc_state, webrtc_settings, canceller, abort_flag,
                  pads, tracks, created, sc, app, rel, ev, ret, fault>>

sender_vars == <<sender, add, spawned, cs, rn, clock, sender_ret, sender_fault>>

vars == <<sdp_vars, element_vars, sender_vars>>

\* The element is not part of the run.
NoElement ==
    /\ state = <<>>
    /\ webrtc_state = <<>>
    /\ webrtc_settings = [config |-> <<>>]
    /\ canceller = <<>>
    /\ abort_flag = FALSE
    /\ pads = {}
    /\ tracks = 0
    /\ created = 0
    /\ sc = [pc |-> "off"]
    /\ app = [pc |-> "off"]
    /\ rel = [pc |-> "off"]
    /\ ev = [pc |-> "off"]
    /\ ret = <<>>
    /\ fault = <<>>

\* The sender is not part of the run.
NoSender ==
    /\ sender = <<>>
    /\ add = [pc |-> "off"]
    /\ spawned = <<>>
    /\ cs = [pc |-> "off"]
    /\ rn = [pc |-> "off"]
    /\ clock = <<>>
    /\ sender_ret = <<>>
    /\ sender_fault = <<>>

(***************************************************************************)
(* Results                                                                 *)
(***************************************************************************)
Ok(v) == [kind |-> "Ok", val |-> v]

Err(e) == [kind |-> "Err", err |-> e]

Panic(why) == [kind |-> "Panic", why |-> why]

IsOk(r) == r.kind = "Ok"

UnknownToken(s) == <<"UnknownToken", s>>

UnknownKey(k, v) == <<"UnknownKey", k, v>>

TypeParseFailed(k) == <<"TypeParseFailed", k>>

\* The `?` operator over a sequence of steps evaluated left to right: every
\* step succeeded, or the first step that did not decides the result.
AllOk(rs) == \A i \in 1..Len(rs) : IsOk(rs[i])

FirstBad(rs) ==
    rs[CHOOSE i \in 1..Len(rs) : ~IsOk(rs[i]) /\ \A j \in 1..(i - 1) : IsOk(rs[j])]

\* tokens[i] of Rust (0-based): a panic when i is out of range.
Index(tokens, i) ==
    IF i + 1 <= Len(tokens) THEN Ok(tokens[i + 1]) ELSE Panic("index out of bounds")

\* Option<T>: None is <<>>, Some(x) is <<x>>.
None == <<>>

Some(x) == <<x>>

(***************************************************************************)
(* Characters and strings                                                  *)
(***************************************************************************)
CR == "\r"

LF == "\n"

CRLF == <<CR, LF>>

DigitSeq == <<"0", "1", "2", "3", "4", "5", "6", "7", "8", "9">>

Digits == {DigitSeq[i] : i \in 1..Len(DigitSeq)}

DigitVal(d) == CHOOSE i \in 0..9 : DigitSeq[i + 1] = d

\* str::split(c): the pieces between the occurrences of c, at least one piece.
RECURSIVE Split(_, _)
Split(s, c) ==
    IF \A i \in 1..Len(s) : s[i] # c
    THEN <<s>>
    ELSE LET i == CHOOSE i \in 1..Len(s) : s[i] = c /\ \A j \in 1..(i - 1) : s[j] # c
         IN  <<SubSeq(s, 1, i - 1)>> \o Split(SubSeq(s, i + 1, Len(s)), c)

\* [String]::join(sep)
RECURSIVE Join(_, _)
Join(parts, sep) ==
    IF Len(parts) = 0 THEN <<>>
    ELSE IF Len(parts) = 1 THEN parts[1]
    ELSE parts[1] \o sep \o Join(Tail(parts), sep)

\* tokens[i..] of Rust (0-based), for i <= len.
From(tokens, i) == SubSeq(tokens, i + 1, Len(tokens))

\* s.replace("\r\n", "\n")
RECURSIVE ReplaceCRLF(_)
ReplaceCRLF(s) ==
    IF Len(s) = 0 THEN <<>>
    ELSE IF Len(s) >= 2 /\ s[1] = CR /\ s[2] = LF
         THEN <<LF>> \o ReplaceCRLF(SubSeq(s, 3, Len(s)))
         ELSE <<s[1]>> \o ReplaceCRLF(Tail(s))

(***************************************************************************)
(* Unsigned integer parsing and formatting (core::num, str::parse)         *)
(***************************************************************************)
U8_MAX == <<"2", "5", "5">>

U16_MAX == <<"6", "5", "5", "3", "5">>

USIZE_MAX == <<"1", "8", "4", "4", "6", "7", "4", "4", "0", "7",
               "3", "7", "0", "9", "5", "5", "1", "6", "1", "5">>

\* The canonical digits of a digit sequence: no leading zeros, "0" for zero.
RECURSIVE Canon(_)
Canon(ds) ==
    IF Len(ds) = 0 THEN <<"0">>
    ELSE IF ds[1] = "0" /\ Len(ds) > 1 THEN Canon(Tail(ds))
    ELSE ds

\* a <= b for canonical digit sequences.
RECURSIVE LexLeq(_, _)
LexLeq(a, b) ==
    IF Len(a) = 0 THEN TRUE
    ELSE IF a[1] # b[1] THEN DigitVal(a[1]) < DigitVal(b[1])
    ELSE LexLeq(Tail(a), Tail(b))

NumLeq(a, b) == Len(a) < Len(b) \/ (Len(a) = Len(b) /\ LexLeq(a, b))

\* <unsigned>::from_str: an optional '+', then decimal digits read left to
\* right; the first character that is no digit, or the first digit that takes
\* the value above the type's maximum, ends the parse with an error.
ParseUnsigned(src, max) ==
    IF Len(src) = 0 THEN Err(TypeParseFailed("Empty"))
    ELSE IF Len(src) = 1 /\ src[1] \in {"+", "-"} THEN Err(TypeParseFailed("InvalidDigit"))
    ELSE LET digits == IF src[1] = "+" THEN Tail(src) ELSE src
             bad    == {i \in 1..Len(digits) : digits[i] \notin Digits}
             k      == IF bad = {} THEN Len(digits) + 1
                       ELSE CHOOSE i \in bad : \A j \in bad : i <= j
             prefix == SubSeq(digits, 1, k - 1)
         IN  IF ~NumLeq(Canon(prefix), max) THEN Err(TypeParseFailed("PosOverflow"))
             ELSE IF k <= Len(digits) THEN Err(TypeParseFailed("InvalidDigit"))
             ELSE Ok(Canon(digits))

ParseU8(s) == ParseUnsigned(s, U8_MAX)

\* A faulty port parse: the token is read into the machine word.
ParseU16_AsUsize(s) == ParseUnsigned(s, USIZE_MAX)

ParseU16(s) == ParseUnsigned(s, U16_MAX)

ParseUsize(s) == ParseUnsigned(s, USIZE_MAX)

\* tokens[i].parse()? for a usize field.
ParseUsizeAt(tokens, i) ==
    IF i + 1 <= Len(tokens) THEN ParseUsize(tokens[i + 1])
    ELSE Panic("index out of bounds")

\* Display of an unsigned integer: its canonical digits.
FormatUnsigned(n) == n

(***************************************************************************)
(* Primitive enumerations                                                  *)
(***************************************************************************)
MediaType_from_str(s) ==
    IF s = <<"a", "u", "d", "i", "o">> THEN Ok("Audio")
    ELSE IF s = <<"v", "i", "d", "e", "o">> THEN Ok("Video")
    ELSE IF s = <<"t", "e", "x", "t">> THEN Ok("Text")
    ELSE IF s = <<"a", "p", "p", "l", "i", "c", "a", "t", "i", "o", "n">>
         THEN Ok("Application")
    ELSE Err(UnknownToken(s))

MediaType_to_string(m) ==
    CASE m = "Audio" -> <<"a", "u", "d", "i", "o">>
      [] m = "Video" -> <<"v", "i", "d", "e", "o">>
      [] m = "Text" -> <<"t", "e", "x", "t">>
      [] m = "Application" -> <<"a", "p", "p", "l", "i", "c", "a", "t", "i", "o", "n">>

NetworkType_from_str(s) ==
    IF s = <<"I", "N">> THEN Ok("Internet") ELSE Err(UnknownToken(s))

NetworkType_to_string(n) == CASE n = "Internet" -> <<"I", "N">>

\* A faulty address type parse: the letters are matched in either case.
AddressType_from_str_AnyCase(s) ==
    IF s \in {<<"I", "P", "4">>, <<"i", "p", "4">>} THEN Ok("IPv4")
    ELSE IF s \in {<<"I", "P", "6">>, <<"i", "p", "6">>} THEN Ok("IPv6")
    ELSE Err(UnknownToken(s))

AddressType_from_str(s) ==
    IF s = <<"I", "P", "4">> THEN Ok("IPv4")
    ELSE IF s = <<"I", "P", "6">> THEN Ok("IPv6")
    ELSE Err(UnknownToken(s))

AddressType_to_string(a) ==
    CASE a = "IPv4" -> <<"I", "P", "4">>
      [] a = "IPv6" -> <<"I", "P", "6">>

BandwidthType_from_str(s) ==
    IF s = <<"C", "T">> THEN Ok("ConferenceTotal")
    ELSE IF s = <<"A", "S">> THEN Ok("ApplicationSpecific")
    ELSE Err(UnknownToken(s))

BandwidthType_to_string(b) ==
    CASE b = "ConferenceTotal" -> <<"C", "T">>
      [] b = "ApplicationSpecific" -> <<"A", "S">>

\* EncryptionKeyMethod: [m |-> "Prompt"] or [m |-> "Clear"|"Base64"|"Uri", payload |-> key]
EncryptionKeyMethod_from_str(s) ==
    IF s = <<"p", "r", "o", "m", "p", "t">> THEN Ok([m |-> "Prompt"])
    ELSE LET split == Split(s, ":")
             key   == Join(From(split, 1), <<":">>)
         IN  IF split[1] = <<"c", "l", "e", "a", "r">>
                THEN Ok([m |-> "Clear", payload |-> key])
             ELSE IF split[1] = <<"b", "a", "s", "e", "6", "4">>
                THEN Ok([m |-> "Base64", payload |-> key])
             ELSE IF split[1] = <<"u", "r", "i">>
                THEN Ok([m |-> "Uri", payload |-> key])
             ELSE Err(UnknownToken(s))

EncryptionKeyMethod_to_string(k) ==
    CASE k.m = "Clear" -> <<"c", "l", "e", "a", "r", ":">> \o k.payload
      [] k.m = "Base64" -> <<"b", "a", "s", "e", "6", "4", ":">> \o k.payload
      [] k.m = "Uri" -> <<"u", "r", "i", ":">> \o k.payload
      [] k.m = "Prompt" -> <<"p", "r", "o", "m", "p", "t">>

(***************************************************************************)
(* Line grammar                                                            *)
(***************************************************************************)
\* A faulty split: the value stops at the second '='.
content_from_line_Truncating(line) ==
    LET split == Split(line, "=")
    IN  IF Len(split) < 2 THEN Err(UnknownToken(line))
        ELSE IF Len(split[1]) = 0 THEN Panic("unwrap on None")
        ELSE Ok([key |-> split[1][1], value |-> split[2]])

content_from_line(line) ==
    LET split == Split(line, "=")
    IN  IF Len(split) < 2 THEN Err(UnknownToken(line))
        ELSE IF Len(split[1]) = 0 THEN Panic("unwrap on None")
        ELSE Ok([key |-> split[1][1], value |-> Join(From(split, 1), <<"=">>)])

get_options_from_address_split(address_split) ==
    CASE Len(address_split) = 1 ->
            Ok([address |-> address_split[1], ttl |-> None, num_addresses |-> None])
      [] Len(address_split) = 2 ->
            LET ttl == ParseUsize(address_split[2])
            IN  IF ~IsOk(ttl) THEN ttl
                ELSE Ok([address |-> address_split[1], ttl |-> Some(ttl.val),
                         num_addresses |-> None])
      [] Len(address_split) = 3 ->
            LET ttl == ParseUsize(address_split[2])
                num == ParseUsize(address_split[3])
            IN  IF ~IsOk(ttl) THEN ttl
                ELSE IF ~IsOk(num) THEN num
                ELSE Ok([address |-> address_split[1], ttl |-> Some(ttl.val),
                         num_addresses |-> Some(num.val)])
      [] OTHER -> Panic("unreachable")

\* The c= arm, the same code in SdpProp::from_str and MediaProp::from_str.
ConnectionFromTokens(tokens) ==
    LET third   == Index(tokens, 2)
        options == IF IsOk(third)
                   THEN get_options_from_address_split(Split(third.val, "/"))
                   ELSE third
        suffix  == IF Len(tokens) > 3 THEN Some(Join(From(tokens, 3), <<" ">>)) ELSE None
        net     == NetworkType_from_str(tokens[1])
        addr    == IF Len(tokens) >= 2 THEN AddressType_from_str(tokens[2])
                   ELSE Panic("index out of bounds")
        steps   == <<third, options, net, addr>>
    IN  IF ~AllOk(steps) THEN FirstBad(steps)
        ELSE Ok([t |-> "Connection", net_type |-> net.val, address_type |-> addr.val,
                 address |-> options.val.address, ttl |-> options.val.ttl,
                 num_addresses |-> options.val.num_addresses, suffix |-> suffix])

\* The b= arm.
BandwidthFromValue(value) ==
    LET tokens == Split(value, ":")
        type   == BandwidthType_from_str(tokens[1])
        bw     == ParseUsizeAt(tokens, 1)
        steps  == <<type, bw>>
    IN  IF ~AllOk(steps) THEN FirstBad(steps)
        ELSE Ok([t |-> "Bandwidth", type |-> type.val, bandwidth |-> bw.val])

\* The k= arm.
EncryptionKeysFromValue(value) ==
    LET method == EncryptionKeyMethod_from_str(value)
    IN  IF ~IsOk(method) THEN method
        ELSE Ok([t |-> "EncryptionKeys", method |-> method.val])

\* A faulty a= arm: the value is cut at the second ':' (tokens[1] in place
\* of tokens[1..].join(":")).
AttributeFromValue_Truncating(value) ==
    LET tokens == Split(value, ":")
    IN  IF Len(tokens) > 1
        THEN Ok([t |-> "Attribute", key |-> tokens[1], value |-> Some(tokens[2])])
        ELSE Ok([t |-> "Attribute", key |-> value, value |-> None])

\* The a= arm.
AttributeFromValue(value) ==
    LET tokens == Split(value, ":")
    IN  IF Len(tokens) > 1
        THEN Ok([t |-> "Attribute", key |-> tokens[1],
                 value |-> Some(Join(From(tokens, 1), <<":">>))])
        ELSE Ok([t |-> "Attribute", key |-> value, value |-> None])

MediaProp_from_str(s) ==
    LET kv == content_from_line(s)
    IN  IF ~IsOk(kv) THEN kv
        ELSE LET key    == kv.val.key
                 value  == kv.val.value
                 tokens == Split(value, " ")
             IN  CASE key = "i" -> Ok([t |-> "Title", text |-> value])
                   [] key = "c" -> ConnectionFromTokens(tokens)
                   [] key = "b" -> BandwidthFromValue(value)
                   [] key = "k" -> EncryptionKeysFromValue(value)
                   [] key = "a" -> AttributeFromValue(value)
                   [] OTHER -> Err(UnknownToken(s))

\* The v= arm.
VersionFromValue(value) ==
    LET v == ParseU8(value)
    IN  IF ~IsOk(v) THEN v ELSE Ok([t |-> "Version", v |-> v.val])

\* The o= arm: the fields are evaluated in declaration order.
OriginFromTokens(tokens) ==
    LET id    == Index(tokens, 1)
        ver   == ParseUsizeAt(tokens, 2)
        net   == IF Len(tokens) >= 4 THEN NetworkType_from_str(tokens[4])
                 ELSE Panic("index out of bounds")
        addr  == IF Len(tokens) >= 5 THEN AddressType_from_str(tokens[5])
                 ELSE Panic("index out of bounds")
        host  == Index(tokens, 5)
        steps == <<id, ver, net, addr, host>>
    IN  IF ~AllOk(steps) THEN FirstBad(steps)
        ELSE Ok([t |-> "Origin", username |-> tokens[1], session_id |-> id.val,
                 session_version |-> ver.val, net_type |-> net.val,
                 address_type |-> addr.val, address |-> host.val])

\* The t= arm.
TimingFromTokens(tokens) ==
    LET start == ParseUsize(tokens[1])
        stop  == ParseUsizeAt(tokens, 1)
        steps == <<start, stop>>
    IN  IF ~AllOk(steps) THEN FirstBad(steps)
        ELSE Ok([t |-> "Timing", start |-> start.val, stop |-> stop.val])

\* The r= arm.
RepeatTimesFromTokens(tokens) ==
    LET dur == Index(tokens, 1)
    IN  IF ~IsOk(dur) THEN dur
        ELSE Ok([t |-> "RepeatTimes", interval |-> tokens[1],
                 active_duration |-> dur.val, start_offsets |-> From(tokens, 2)])

\* The z= arm: tokens.chunks(2), each chunk parsed in turn.
RECURSIVE TimeZoneAdjustments(_)
TimeZoneAdjustments(tokens) ==
    IF Len(tokens) = 0 THEN Ok(<<>>)
    ELSE LET time   == ParseUsize(tokens[1])
             offset == Index(tokens, 1)
             rest   == TimeZoneAdjustments(From(tokens, 2))
         IN  IF ~IsOk(time) THEN time
             ELSE IF ~IsOk(offset) THEN offset
             ELSE IF ~IsOk(rest) THEN rest
             ELSE Ok(<<[time |-> time.val, offset |-> offset.val]>> \o rest.val)

TimeZoneFromTokens(tokens) ==
    LET adjustments == TimeZoneAdjustments(tokens)
    IN  IF ~IsOk(adjustments) THEN adjustments
        ELSE Ok([t |-> "TimeZone", adjustments |-> adjustments.val])

\* collect::<Result<Vec<_>, _>>() over a mapped iterator: the elements are
\* produced in order and the first failure ends the collection.
RECURSIVE CollectResults(_)
CollectResults(rs) ==
    IF Len(rs) = 0 THEN Ok(<<>>)
    ELSE IF ~IsOk(rs[1]) THEN rs[1]
    ELSE LET rest == CollectResults(Tail(rs))
         IN  IF ~IsOk(rest) THEN rest ELSE Ok(<<rs[1].val>> \o rest.val)

\* The m= arm: the whole media block is the value.
MediaFromValue(value) ==
    LET mlines   == Split(value, LF)
        tokens   == Split(mlines[1], " ")
        type     == MediaType_from_str(tokens[1])
        portsTok == Index(tokens, 1)
        parts    == Split(portsTok.val, "/")
        ports    == IF IsOk(portsTok)
                    THEN CollectResults([i \in 1..Len(parts) |-> ParseU16(parts[i])])
                    ELSE portsTok
        protocol == Index(tokens, 2)
        nested   == From(mlines, 1)
        props    == CollectResults([i \in 1..Len(nested) |-> MediaProp_from_str(nested[i])])
        steps    == <<type, ports, protocol, props>>
    IN  IF ~AllOk(steps) THEN FirstBad(steps)
        ELSE Ok([t |-> "Media", type |-> type.val, ports |-> ports.val,
                 protocol |-> protocol.val, format |-> Join(From(tokens, 3), <<" ">>),
                 props |-> props.val])

SdpProp_from_str(s) ==
    LET kv == content_from_line(s)
    IN  IF ~IsOk(kv) THEN kv
        ELSE LET key    == kv.val.key
                 value  == kv.val.value
                 tokens == Split(value, " ")
             IN  CASE key = "v" -> VersionFromValue(value)
                   [] key = "o" -> OriginFromTokens(tokens)
                   [] key = "s" -> Ok([t |-> "SessionName", text |-> value])
                   [] key = "i" -> Ok([t |-> "SessionInformation", text |-> value])
                   [] key = "u" -> Ok([t |-> "Uri", text |-> value])
                   [] key = "e" -> Ok([t |-> "Email", text |-> value])
                   [] key = "p" -> Ok([t |-> "Phone", text |-> value])
                   [] key = "c" -> ConnectionFromTokens(tokens)
                   [] key = "b" -> BandwidthFromValue(value)
                   [] key = "t" -> TimingFromTokens(tokens)
                   [] key = "r" -> RepeatTimesFromTokens(tokens)
                   [] key = "z" -> TimeZoneFromTokens(tokens)
                   [] key = "k" -> EncryptionKeysFromValue(value)
                   [] key = "a" -> AttributeFromValue(value)
                   [] key = "m" -> MediaFromValue(value)
                   [] OTHER -> Err(UnknownKey(key, value))

(***************************************************************************)
(* Serialiser                                                              *)
(***************************************************************************)
build_connection_lines(net_type, address_type, suffix, address) ==
    IF suffix # None
    THEN <<"c", "=">> \o NetworkType_to_string(net_type) \o <<" ">>
         \o AddressType_to_string(address_type) \o <<" ">> \o address
         \o <<" ">> \o suffix[1]
    ELSE <<"c", "=">> \o NetworkType_to_string(net_type) \o <<" ">>
         \o AddressType_to_string(address_type) \o <<" ">> \o address

\* The Attribute arm, the same code in both to_string implementations.
AttributeToString(key, value) ==
    IF value # None
    THEN <<"a", "=">> \o key \o <<":">> \o value[1]
    ELSE <<"a", "=">> \o key

BandwidthToString(type, bandwidth) ==
    <<"b", "=">> \o BandwidthType_to_string(type) \o <<":">> \o FormatUnsigned(bandwidth)

\* MediaProp::to_string: total.
MediaProp_to_string(prop) ==
    CASE prop.t = "Title" -> <<"i", "=">> \o prop.text
      [] prop.t = "Connection" ->
            LET a1 == IF prop.ttl # None
                      THEN prop.address \o <<"/">> \o FormatUnsigned(prop.ttl[1])
                      ELSE prop.address
                a2 == IF prop.num_addresses # None
                      THEN a1 \o <<"/">> \o FormatUnsigned(prop.num_addresses[1])
                      ELSE a1
            IN  build_connection_lines(prop.net_type, prop.address_type, prop.suffix, a2)
      [] prop.t = "Bandwidth" -> BandwidthToString(prop.type, prop.bandwidth)
      [] prop.t = "EncryptionKeys" ->
            <<"k", "=">> \o EncryptionKeyMethod_to_string(prop.method)
      [] prop.t = "Attribute" -> AttributeToString(prop.key, prop.value)

\* The Connection arm of SdpProp::to_string: ttl.unwrap() is reached for every
\* IPv4 address, with or without a TTL.
SdpConnectionToString(prop) ==
    IF prop.address_type = "IPv4" \/ prop.ttl # None
    THEN IF prop.ttl = None THEN Panic("unwrap on None")
         ELSE LET a1 == prop.address \o <<"/">> \o FormatUnsigned(prop.ttl[1])
                  a2 == IF prop.num_addresses # None
                        THEN a1 \o <<"/">> \o FormatUnsigned(prop.num_addresses[1])
                        ELSE a1
              IN  Ok(build_connection_lines(prop.net_type, prop.address_type,
                                            prop.suffix, a2))
    ELSE LET a2 == IF prop.num_addresses # None
                   THEN prop.address \o <<"/">> \o FormatUnsigned(prop.num_addresses[1])
                   ELSE prop.address
         IN  Ok(build_connection_lines(prop.net_type, prop.address_type, prop.suffix, a2))

\* The Media arm of SdpProp::to_string: the header, then the nested records,
\* each preceded by "\r\n".
\* A faulty m= arm: the header is followed by a line break even when no
\* nested record follows.
MediaToString_AlwaysBreak(prop) ==
    LET ports  == Join([i \in 1..Len(prop.ports) |-> FormatUnsigned(prop.ports[i])],
                       <<"/">>)
        header == MediaType_to_string(prop.type) \o <<" ">> \o ports \o <<" ">>
                  \o prop.protocol \o <<" ">> \o prop.format
        nested == [i \in 1..Len(prop.props) |-> MediaProp_to_string(prop.props[i])]
    IN  <<"m", "=">> \o header \o CRLF \o Join(nested, CRLF)

MediaToString(prop) ==
    LET ports  == Join([i \in 1..Len(prop.ports) |-> FormatUnsigned(prop.ports[i])],
                       <<"/">>)
        header == MediaType_to_string(prop.type) \o <<" ">> \o ports \o <<" ">>
                  \o prop.protocol \o <<" ">> \o prop.format
        nested == [i \in 1..Len(prop.props) |-> MediaProp_to_string(prop.props[i])]
    IN  <<"m", "=">> \o header
        \o (IF Len(prop.props) = 0 THEN <<>> ELSE CRLF \o Join(nested, CRLF))

\* SdpProp::to_string: Ok(text), or a panic.
SdpProp_to_string(prop) ==
    CASE prop.t = "Version" -> Ok(<<"v", "=">> \o FormatUnsigned(prop.v))
      [] prop.t = "Origin" ->
            Ok(<<"o", "=">> \o prop.username \o <<" ">> \o prop.session_id \o <<" ">>
               \o FormatUnsigned(prop.session_version) \o <<" ">>
               \o NetworkType_to_string(prop.net_type) \o <<" ">>
               \o AddressType_to_string(prop.address_type) \o <<" ">> \o prop.address)
      [] prop.t = "SessionName" -> Ok(<<"s", "=">> \o prop.text)
      [] prop.t = "SessionInformation" -> Ok(<<"i", "=">> \o prop.text)
      [] prop.t = "Uri" -> Ok(<<"u", "=">> \o prop.text)
      [] prop.t = "Email" -> Ok(<<"e", "=">> \o prop.text)
      [] prop.t = "Phone" -> Ok(<<"p", "=">> \o prop.text)
      [] prop.t = "Connection" -> SdpConnectionToString(prop)
      [] prop.t = "Bandwidth" -> Ok(BandwidthToString(prop.type, prop.bandwidth))
      [] prop.t = "Timing" ->
            Ok(<<"t", "=">> \o FormatUnsigned(prop.start) \o <<" ">>
               \o FormatUnsigned(prop.stop))
      [] prop.t = "RepeatTimes" ->
            Ok(<<"r", "=">> \o prop.interval \o <<" ">> \o prop.active_duration
               \o <<" ">> \o Join(prop.start_offsets, <<" ">>))
      [] prop.t = "TimeZone" ->
            Ok(<<"z", "=">>
               \o Join([i \in 1..Len(prop.adjustments) |->
                           FormatUnsigned(prop.adjustments[i].time) \o <<" ">>
                           \o prop.adjustments[i].offset],
                       <<" ">>))
      [] prop.t = "EncryptionKeys" ->
            Ok(<<"k", "=">> \o EncryptionKeyMethod_to_string(prop.method))
      [] prop.t = "Attribute" -> Ok(AttributeToString(prop.key, prop.value))
      [] prop.t = "Media" -> Ok(MediaToString(prop))

(***************************************************************************)
(* Document: section grouping, parse and serialise                         *)
(***************************************************************************)
StartsWith(line, c) == Len(line) > 0 /\ line[1] = c

\* m_indices: the 0-based indices, among all the lines, of those starting
\* with 'm'.
MediaIndices(ls) == {i - 1 : i \in {j \in 1..Len(ls) : StartsWith(ls[j], "m")}}

Min(S) == CHOOSE x \in S : \A y \in S : x <= y

\* The fold over the non-empty lines, idx counting the non-empty lines only.
RECURSIVE GroupSections(_, _, _, _)
GroupSections(acc, kept, idx, m_indices) ==
    IF idx >= Len(kept) THEN acc
    ELSE LET line == kept[idx + 1]
         IN  IF Len(acc) = 0 \/ idx \in m_indices \/ m_indices = {}
                \/ idx < Min(m_indices)
             THEN GroupSections(Append(acc, line), kept, idx + 1, m_indices)
             ELSE GroupSections(
                      [acc EXCEPT ![Len(acc)] = acc[Len(acc)] \o <<LF>> \o line],
                      kept, idx + 1, m_indices)

\* A faulty normalisation: the text is left as it is.
NormalizeEndings_Identity(s) == s

\* Convert \r\n to \n.
NormalizeEndings(s) == ReplaceCRLF(s)

\* SDP::from_str
SDP_from_str(s) ==
    LET all       == Split(NormalizeEndings(s), LF)
        m_indices == MediaIndices(all)
        kept      == SelectSeq(all, LAMBDA l : Len(l) > 0)
        sections  == GroupSections(<<>>, kept, 0, m_indices)
        props     == CollectResults([i \in 1..Len(sections) |->
                                        SdpProp_from_str(sections[i])])
    IN  IF ~IsOk(props) THEN props ELSE Ok([props |-> props.val])

\* SDP::to_string: the records joined by "\r\n", and a trailing "\r\n".
SDP_to_string(d) ==
    LET strs == CollectResults([i \in 1..Len(d.props) |-> SdpProp_to_string(d.props[i])])
    IN  IF ~IsOk(strs) THEN strs ELSE Ok(Join(strs.val, CRLF) \o CRLF)

(***************************************************************************)
(* Inputs                                                                  *)
(***************************************************************************)
\* The most lines of a text built from StructPool.
MaxLines == 3

\* v=0
L_version == <<"v", "=", "0">>

\* a=audio 1 R 0
L_attr == <<"a", "=", "a", "u", "d", "i", "o", " ", "1", " ", "R", " ", "0">>

\* m=audio 1 R 0
L_media == <<"m", "=", "a", "u", "d", "i", "o", " ", "1", " ", "R", " ", "0">>

\* g
L_garbage == <<"g">>

\* mg
L_mgarbage == <<"m", "g">>

\* Lines for the structure of a document: session-level lines, a media
\* header, and lines without '='.
StructPool == {L_version, L_attr, L_media, L_garbage, L_mgarbage}

\* One line of every kind, well-formed and malformed.
LinePool ==
    {<<"v", "=", "0", "0", "7">>,  \* v=007
     <<"v", "=", "2", "5", "6">>,  \* v=256
     <<"v", "=", "x">>,  \* v=x
     <<"o", "=", "u", " ", "1", " ", "2", " ", "I", "N", " ", "I", "P", "4", " ", "h">>,  \* o=u 1 2 IN IP4 h
     <<"o", "=", "u", " ", "1">>,  \* o=u 1
     <<"s", "=", "n">>,  \* s=n
     <<"s", "=">>,  \* s=
     <<"i", "=", "t">>,  \* i=t
     <<"u", "=", "w">>,  \* u=w
     <<"e", "=", "m">>,  \* e=m
     <<"p", "=", "5">>,  \* p=5
     <<"c", "=", "I", "N", " ", "I", "P", "4", " ", "h">>,  \* c=IN IP4 h
     <<"c", "=", "I", "N", " ", "I", "P", "4", " ", "h", "/", "7">>,  \* c=IN IP4 h/7
     <<"c", "=", "I", "N", " ", "I", "P", "6", " ", "h">>,  \* c=IN IP6 h
     <<"c", "=", "I", "N", " ", "I", "P", "6", " ", "h", "/", "7", "/", "2">>,  \* c=IN IP6 h/7/2
     <<"c", "=", "I", "N", " ", "I", "P", "4", " ", "h", "/", "7", " ", "x", " ", "y">>,  \* c=IN IP4 h/7 x y
     <<"c", "=", "I", "N", " ", "I", "P", "4", " ", "h", "/", "1", "/", "2", "/", "3">>,  \* c=IN IP4 h/1/2/3
     <<"c", "=", "I", "N">>,  \* c=IN
     <<"c", "=", "i", "n", " ", "I", "P", "4", " ", "h", "/", "7">>,  \* c=in IP4 h/7
     <<"c", "=", "I", "N", " ", "I", "P", "4", " ", "h", "/", "x">>,  \* c=IN IP4 h/x
     <<"b", "=", "C", "T", ":", "5">>,  \* b=CT:5
     <<"b", "=", "A", "S", ":", "+", "5">>,  \* b=AS:+5
     <<"b", "=", "X", "X", ":", "5">>,  \* b=XX:5
     <<"b", "=", "C", "T">>,  \* b=CT
     <<"t", "=", "1", " ", "2">>,  \* t=1 2
     <<"t", "=", "1">>,  \* t=1
     <<"r", "=", "7", " ", "1", " ", "0", " ", "5">>,  \* r=7 1 0 5
     <<"r", "=", "7", "d", " ", "1", "h">>,  \* r=7d 1h
     <<"r", "=", "7">>,  \* r=7
     <<"z", "=", "1", " ", "h", " ", "2", " ", "k">>,  \* z=1 h 2 k
     <<"z", "=", "1">>,  \* z=1
     <<"k", "=", "p", "r", "o", "m", "p", "t">>,  \* k=prompt
     <<"k", "=", "c", "l", "e", "a", "r", ":", "p">>,  \* k=clear:p
     <<"k", "=", "b", "a", "s", "e", "6", "4", ":", "p", ":", "q">>,  \* k=base64:p:q
     <<"k", "=", "u", "r", "i", ":", "w">>,  \* k=uri:w
     <<"k", "=", "c", "l", "e", "a", "r">>,  \* k=clear
     <<"k", "=", "z", "z", ":", "p">>,  \* k=zz:p
     <<"a", "=", "x">>,  \* a=x
     <<"a", "=", "k", ":", "v">>,  \* a=k:v
     <<"a", "=", "k", ":", "v", ":", "w", "=", "z">>,  \* a=k:v:w=z
     <<"a", "=", "k", ":">>,  \* a=k:
     <<"a", "=">>,  \* a=
     <<"a", "=", "k", "\r", "z">>,  \* a=k\rz
     <<"s", "=", "n", "\r">>,  \* s=n\r
     <<"m", "=", "v", "i", "d", "e", "o", " ", "1", "/", "2", " ", "R", " ", "0", " ", "9">>,  \* m=video 1/2 R 0 9
     <<"m", "=", "t", "e", "x", "t", " ", "7", "0", "0", "0", "0", " ", "R", " ", "0">>,  \* m=text 70000 R 0
     <<"m", "=", "a", "p", "p", "l", "i", "c", "a", "t", "i", "o", "n", " ", "1", " ", "R">>,  \* m=application 1 R
     <<"m", "=", "a", "u", "d", "i", "o">>,  \* m=audio
     <<"m", "=", "d", "a", "t", "a", " ", "1", " ", "R", " ", "0">>,  \* m=data 1 R 0
     <<"c", "=", "I", "N", " ", "i", "p", "4", " ", "h", "/", "7">>,  \* c=IN ip4 h/7
     <<"b", "=", "c", "t", ":", "5">>,  \* b=ct:5
     <<"m", "=", "A", "u", "d", "i", "o", " ", "1", " ", "R", " ", "0">>,  \* m=Audio 1 R 0
     <<"y", "=", "1", "=", "2">>,  \* y=1=2
     <<"m", "=", "a", "u", "d", "i", "o", " ", "-", "1", " ", "R", " ", "0">>,  \* m=audio -1 R 0
     <<"m", "=", "a", "u", "d", "i", "o", " ", "x", " ", "R", " ", "0">>,  \* m=audio x R 0
     <<"m", "=", "a", "u", "d", "i", "o", " ", "6", "5", "5", "3", "5", "/", "0", " ", "R", " ", "0">>,  \* m=audio 65535/0 R 0
     <<"m", "=", "a", "u", "d", "i", "o", " ", "6", "5", "5", "3", "6", " ", "R", " ", "0">>,  \* m=audio 65536 R 0
     <<"m", "=", "a", "u", "d", "i", "o", " ", "1", "/", "x", " ", "R", " ", "0">>,  \* m=audio 1/x R 0
     <<"x", "=", "1">>,  \* x=1
     <<"=", "x">>   \* =x
    } \cup StructPool

\* The texts' lines: up to MaxLines lines of StructPool, with at most one
\* empty line put before one of them; and every line of LinePool alone,
\* alone under a media header, after a session-level line and before a media
\* header.
StructSeqs == UNION {[1..n -> StructPool] : n \in 0..MaxLines}

WithBlank(ls, p) == SubSeq(ls, 1, p - 1) \o << <<>> >> \o SubSeq(ls, p, Len(ls))

InputLines ==
    StructSeqs
    \cup {WithBlank(ls, p) : <<ls, p>> \in {q \in StructSeqs \X (1..MaxLines) : q[2] <= Len(q[1])}}
    \cup {<<l>> : l \in LinePool}
    \cup {<<L_media, l>> : l \in LinePool}
    \cup {<<L_version, l>> : l \in LinePool}
    \cup {<<l, L_media>> : l \in LinePool}

Terminator(e) == IF e = "CRLF" THEN CRLF ELSE <<LF>>

\* The text of the lines in one line-ending convention, with or without a
\* terminator after the last line.
Compose(ls, e, tr) == Join(ls, Terminator(e)) \o (IF tr THEN Terminator(e) ELSE <<>>)

Nil == [kind |-> "Nil"]

(***************************************************************************)
(* The caller: parse a text, serialise the document, parse the output      *)
(***************************************************************************)
Init ==
    /\ lines \in InputLines
    /\ ending \in {"LF", "CRLF"}
    /\ trailing \in BOOLEAN
    /\ text = Compose(lines, ending, trailing)
    /\ pc = "input"
    /\ doc = Nil
    /\ out = Nil
    /\ doc2 = Nil
    /\ NoElement
    /\ NoSender

\* SDP::from_str(text)
Parse ==
    /\ pc = "input"
    /\ doc' = SDP_from_str(text)
    /\ pc' = "parsed"
    /\ UNCHANGED <<lines, ending, trailing, text, out, doc2>>
    /\ UNCHANGED <<element_vars, sender_vars>>

\* sdp.to_string() on the parsed document
Serialize ==
    /\ pc = "parsed"
    /\ IsOk(doc)
    /\ out' = SDP_to_string(doc.val)
    /\ pc' = "serialized"
    /\ UNCHANGED <<lines, ending, trailing, text, doc, doc2>>
    /\ UNCHANGED <<element_vars, sender_vars>>

\* SDP::from_str on the serialised text
Reparse ==
    /\ pc = "serialized"
    /\ IsOk(out)
    /\ doc2' = SDP_from_str(out.val)
    /\ pc' = "reparsed"
    /\ UNCHANGED <<lines, ending, trailing, text, doc, out>>
    /\ UNCHANGED <<element_vars, sender_vars>>

Next == Parse \/ Serialize \/ Reparse

Spec == Init /\ [][Next]_vars

(***************************************************************************)
(* What the claims speak of: the input's lines                             *)
(***************************************************************************)
NonEmpty(ls) == SelectSeq(ls, LAMBDA l : Len(l) > 0)

HasEq(l) == \E i \in 1..Len(l) : l[i] = "="

IsMediaLine(l) == Len(l) >= 2 /\ l[1] = "m" /\ l[2] = "="

IsAttributeLine(l) == Len(l) >= 2 /\ l[1] = "a" /\ l[2] = "="

IsConnectionLine(l) == Len(l) >= 2 /\ l[1] = "c" /\ l[2] = "="

\* The text after the two characters "k=" of a line.
ValueOf(l) == SubSeq(l, 3, Len(l))

\* The text uses its convention throughout and ends with one terminator.
ConsistentText == trailing /\ Len(lines) >= 1 /\ \A i \in 1..Len(lines) : Len(lines[i]) > 0

\* The indices, among the non-empty lines, of the m= lines.
MediaLineIndices(ne) == {i \in 1..Len(ne) : IsMediaLine(ne[i])}

\* The number of lines from line i + 1 up to the next m= line or the end.
FollowingNonMedia(ne, i) ==
    LET later == {j \in MediaLineIndices(ne) : j > i}
    IN  (IF later = {} THEN Len(ne) + 1 ELSE Min(later)) - i - 1

\* The Media records of a document, in order.
MediaRecords(d) == SelectSeq(d.props, LAMBDA r : r.t = "Media")

\* The k-th smallest element of a set of numbers.
RECURSIVE Nth(_, _)
Nth(S, k) == IF k = 1 THEN Min(S) ELSE Nth(S \ {Min(S)}, k - 1)

\* A document read header-then-nested-records: each record with its level,
\* a Media record without its nested records.
RECURSIVE Flatten(_)
Flatten(props) ==
    IF Len(props) = 0 THEN <<>>
    ELSE LET r == props[1]
         IN  (IF r.t = "Media"
              THEN <<[level |-> "session", rec |-> [r EXCEPT !.props = <<>>]]>>
                   \o [i \in 1..Len(r.props) |-> [level |-> "media", rec |-> r.props[i]]]
              ELSE <<[level |-> "session", rec |-> r]>>)
             \o Flatten(Tail(props))

\* The record a line gives when parsed on its own at a level.
RecordOfLine(l, level) ==
    IF level = "session" THEN SdpProp_from_str(l) ELSE MediaProp_from_str(l)

\* Every "\n" of a text replaced by "\r\n".
RECURSIVE WithCRLF(_)
WithCRLF(s) ==
    IF Len(s) = 0 THEN <<>>
    ELSE (IF s[1] = LF THEN CRLF ELSE <<s[1]>>) \o WithCRLF(Tail(s))

\* No "\n" of the text follows a "\r".
BareLF(s) == \A i \in 2..Len(s) : ~(s[i - 1] = CR /\ s[i] = LF)

\* The Attribute an a= line stands for: the key up to the first ':', the
\* value all the text after it; no ':' gives the whole value as the key.
ExpectedAttribute(l) ==
    LET v      == ValueOf(l)
        colons == {i \in 1..Len(v) : v[i] = ":"}
    IN  IF colons = {}
        THEN [t |-> "Attribute", key |-> v, value |-> None]
        ELSE [t |-> "Attribute", key |-> SubSeq(v, 1, Min(colons) - 1),
              value |-> Some(SubSeq(v, Min(colons) + 1, Len(v)))]

(***************************************************************************)
(* Claims                                                                  *)
(***************************************************************************)
\* C1: round-trip identity.  For every text in one line-ending convention
\* that ends with one terminator and that parse accepts, serialising the
\* parsed document with the text's own line ending gives back the text.
C1_RoundTrip ==
    (pc = "serialized" /\ ConsistentText) => out = Ok(text)

\* C2: re-parse idempotence.  For every document D of a successful parse,
\* parsing the serialised D succeeds and gives a document equal to D.
C2_ReparseIdempotent ==
    pc = "reparsed" => doc2 = doc

\* C3: media section grouping.  The top-level records are the non-empty lines
\* before the first m= line plus one Media per m= line, and each Media holds
\* as many nested records as non-m lines follow its m= line.
C3_Grouping ==
    (pc = "parsed" /\ IsOk(doc)) =>
        LET ne     == NonEmpty(lines)
            ms     == MediaLineIndices(ne)
            before == IF ms = {} THEN Len(ne) ELSE Min(ms) - 1
            media  == MediaRecords(doc.val)
        IN  /\ Len(doc.val.props) = before + Cardinality(ms)
            /\ Len(media) = Cardinality(ms)
            /\ \A k \in 1..Len(media) :
                  Len(media[k].props) = FollowingNonMedia(ne, Nth(ms, k))

\* C4: serialisation is total.  For every document of a successful parse,
\* serialisation completes and returns a text.
C4_SerializeTotal ==
    pc = "serialized" => IsOk(out)

\* C5: the caller's line ending is used for every terminator of the output:
\* with LF no "\n" follows a "\r", with CRLF every "\n" follows a "\r".
C5_CallerEnding ==
    (pc = "serialized" /\ IsOk(out)) =>
        \A i \in 1..Len(out.val) :
            out.val[i] = LF =>
                ((ending = "CRLF") <=> (i > 1 /\ out.val[i - 1] = CR))

\* C6: parsing is independent of the line-ending convention.  A text whose
\* lines are separated by bare "\n" (no "\n" of it follows a "\r"), and the
\* same text with every "\n" replaced by "\r\n", parse to the same result,
\* with or without a terminator after the last line.
C6_EndingIndependent ==
    (pc = "parsed" /\ ending = "LF" /\ BareLF(text)) =>
        SDP_from_str(WithCRLF(text)) = doc

\* C6 witness: an LF text of a media header and a nested line was parsed to a
\* Media record holding the nested record.
C6_Witness ==
    /\ pc = "parsed"
    /\ ending = "LF"
    /\ lines = <<L_media, L_attr>>
    /\ IsOk(doc)
    /\ Len(doc.val.props) = 1
    /\ Len(doc.val.props[1].props) = 1

\* C7: malformed input is rejected.  When some non-empty line has no '=',
\* parse returns the UnknownToken error: no fault, no document.
C7_MalformedRejected ==
    (pc = "parsed" /\ \E i \in 1..Len(lines) : Len(lines[i]) > 0 /\ ~HasEq(lines[i])) =>
        (doc.kind = "Err" /\ doc.err[1] = "UnknownToken")

\* C8: order preservation.  A document read header-then-nested-records is the
\* sequence of the non-empty input lines, one record per line, in order.
C8_OrderPreserved ==
    (pc = "parsed" /\ IsOk(doc)) =>
        LET ne   == NonEmpty(lines)
            flat == Flatten(doc.val.props)
        IN  /\ Len(flat) = Len(ne)
            /\ \A i \in 1..Len(flat) :
                  LET r == RecordOfLine(ne[i], flat[i].level)
                  IN  IsOk(r) /\ r.val = flat[i].rec

\* C9: attribute lines.  An a= line parses to the key before the first ':'
\* and the value after it (no ':' gives no value), and the record serialises
\* to the identical line, at session level and under a media header.
C9_AttributeLines ==
    pc = "parsed" =>
        /\ (Len(lines) = 1 /\ IsAttributeLine(lines[1])) =>
              /\ IsOk(doc)
              /\ doc.val.props = <<ExpectedAttribute(lines[1])>>
              /\ SdpProp_to_string(doc.val.props[1]) = Ok(lines[1])
        /\ (Len(lines) = 2 /\ lines[1] = L_media /\ IsAttributeLine(lines[2])) =>
              /\ IsOk(doc)
              /\ Len(doc.val.props) = 1
              /\ doc.val.props[1].props = <<ExpectedAttribute(lines[2])>>
              /\ MediaProp_to_string(doc.val.props[1].props[1]) = lines[2]

\* C9 witness: a nested a= line whose value holds a second ':' and a '=' was
\* parsed, the value kept whole.
C9_Witness ==
    /\ pc = "parsed"
    /\ Len(lines) = 2
    /\ lines[1] = L_media
    /\ lines[2] = <<"a", "=", "k", ":", "v", ":", "w", "=", "z">>
    /\ IsOk(doc)
    /\ doc.val.props[1].props[1].value = Some(<<"v", ":", "w", "=", "z">>)

\* C10: connection address arity.  The third token of a c= line split on '/'
\* gives address (1 part), address and ttl (2), address, ttl and count (3);
\* any other number of parts makes parse return an error.  The tokens after
\* the third, joined by single spaces, are the suffix.
C10_ConnectionArity ==
    (pc = "parsed" /\ Len(lines) = 1 /\ IsConnectionLine(lines[1])
       /\ Len(Split(ValueOf(lines[1]), " ")) >= 3) =>
        LET tokens == Split(ValueOf(lines[1]), " ")
            parts  == Split(tokens[3], "/")
            n      == Len(parts)
        IN  /\ n \notin {1, 2, 3} => doc.kind = "Err"
            /\ (n \in {1, 2, 3} /\ IsOk(doc)) =>
                  LET c == doc.val.props[1]
                  IN  /\ c.t = "Connection"
                      /\ c.address = parts[1]
                      /\ (c.ttl = None) <=> (n = 1)
                      /\ (c.num_addresses = None) <=> (n < 3)
                      /\ c.suffix = IF Len(tokens) = 3 THEN None
                                    ELSE Some(Join(From(tokens, 3), <<" ">>))

(***************************************************************************)
(* What the claims speak of: tokens, enumerations, errors                  *)
(***************************************************************************)
\* The variants of the four primitive enumerations.
MediaTypes == {"Audio", "Video", "Text", "Application"}

NetworkTypes == {"Internet"}

AddressTypes == {"IPv4", "IPv6"}

BandwidthTypes == {"ConferenceTotal", "ApplicationSpecific"}

\* The fixed textual forms of the four enumerations.
MediaForms ==
    {<<"a", "u", "d", "i", "o">>, <<"v", "i", "d", "e", "o">>, <<"t", "e", "x", "t">>,
     <<"a", "p", "p", "l", "i", "c", "a", "t", "i", "o", "n">>}

NetworkForms == {<<"I", "N">>}

AddressForms == {<<"I", "P", "4">>, <<"I", "P", "6">>}

BandwidthForms == {<<"C", "T">>, <<"A", "S">>}

\* The elements of a sequence, as a set.
Range(f) == {f[i] : i \in 1..Len(f)}

\* The tokens of the lines' values: the parts between spaces, and the parts
\* of those between ':'.
EnumTokens(ls) ==
    UNION {LET bySpace == Range(Split(ValueOf(l), " "))
           IN  bySpace \cup UNION {Range(Split(t, ":")) : t \in bySpace}
           : l \in {x \in Range(ls) : HasEq(x)}}

\* A result is the UnknownToken error.
IsUnknownToken(r) == r.kind = "Err" /\ r.err[1] = "UnknownToken"

\* C11: primitive enumerations.  Formatting is defined for every variant and
\* parse(format(e)) = e; for every token of the input, format(parse(t)) = t
\* when t parses, and a token that is not exactly one of the fixed forms
\* (another letter case included) fails with UnknownToken.
C11_Enumerations ==
    pc = "parsed" =>
        /\ \A e \in MediaTypes : MediaType_from_str(MediaType_to_string(e)) = Ok(e)
        /\ \A e \in NetworkTypes : NetworkType_from_str(NetworkType_to_string(e)) = Ok(e)
        /\ \A e \in AddressTypes : AddressType_from_str(AddressType_to_string(e)) = Ok(e)
        /\ \A e \in BandwidthTypes :
              BandwidthType_from_str(BandwidthType_to_string(e)) = Ok(e)
        /\ \A t \in EnumTokens(lines) :
              /\ LET r == MediaType_from_str(t)
                 IN  /\ IsOk(r) => (r.val \in MediaTypes /\ MediaType_to_string(r.val) = t)
                     /\ t \notin MediaForms => IsUnknownToken(r)
              /\ LET r == NetworkType_from_str(t)
                 IN  /\ IsOk(r) => (r.val \in NetworkTypes /\ NetworkType_to_string(r.val) = t)
                     /\ t \notin NetworkForms => IsUnknownToken(r)
              /\ LET r == AddressType_from_str(t)
                 IN  /\ IsOk(r) => (r.val \in AddressTypes /\ AddressType_to_string(r.val) = t)
                     /\ t \notin AddressForms => IsUnknownToken(r)
              /\ LET r == BandwidthType_from_str(t)
                 IN  /\ IsOk(r) =>
                          (r.val \in BandwidthTypes /\ BandwidthType_to_string(r.val) = t)
                     /\ t \notin BandwidthForms => IsUnknownToken(r)

\* C11 witness: a c= line whose address type is written in lower case was
\* parsed, and the parse failed with UnknownToken of that token.
C11_Witness ==
    /\ pc = "parsed"
    /\ lines = << <<"c", "=", "I", "N", " ", "i", "p", "4", " ", "h", "/", "7">> >>
    /\ <<"i", "p", "4">> \in EnumTokens(lines)
    /\ doc = Err(UnknownToken(<<"i", "p", "4">>))

\* The level of the i-th non-empty line: a line that is not an m= line and
\* follows an m= line is nested under it, every other line is top-level.
LevelOf(ne, i) ==
    IF ~IsMediaLine(ne[i]) /\ \E j \in MediaLineIndices(ne) : j < i
    THEN "media" ELSE "session"

\* C12: no partial document.  A document is returned only when every
\* non-empty line of the input, top-level or nested under an m= line, parses
\* successfully on its own at its level.
C12_NoPartialDocument ==
    (pc = "parsed" /\ IsOk(doc)) =>
        LET ne == NonEmpty(lines)
        IN  \A i \in 1..Len(ne) : IsOk(RecordOfLine(ne[i], LevelOf(ne, i)))

\* The key characters of the top-level grammar.
SupportedKeys == {"v", "o", "s", "i", "u", "e", "p", "c", "b", "t", "r", "z", "k", "a", "m"}

\* The text after the first '=' of a line that holds one.
AfterFirstEq(l) ==
    SubSeq(l, Min({i \in 1..Len(l) : l[i] = "="}) + 1, Len(l))

\* A line with '=' whose key character is not a supported one.
HasUnknownKey(l) == HasEq(l) /\ l[1] # "=" /\ l[1] \notin SupportedKeys

\* Every line before the i-th non-empty line parses on its own at its level.
EarlierLinesParse(ne, i) ==
    \A j \in 1..(i - 1) : IsOk(RecordOfLine(ne[j], LevelOf(ne, j)))

\* C13: unknown top-level key.  When the first line to fail is a top-level
\* line that holds '=' and whose key character is not a supported one, parse
\* fails with UnknownKey(key, value): key that character, value the
\* unmodified text after the first '='.
C13_UnknownKey ==
    pc = "parsed" =>
        LET ne == NonEmpty(lines)
        IN  \A i \in 1..Len(ne) :
                (LevelOf(ne, i) = "session" /\ HasUnknownKey(ne[i])
                   /\ EarlierLinesParse(ne, i)) =>
                    doc = Err(UnknownKey(ne[i][1], AfterFirstEq(ne[i])))

\* C13 witness: after a v= line, a line of key 'y' whose value holds a '='
\* was parsed, and the parse failed with UnknownKey of 'y' and the value.
C13_Witness ==
    /\ pc = "parsed"
    /\ lines = <<L_version, <<"y", "=", "1", "=", "2">> >>
    /\ doc = Err(UnknownKey("y", <<"1", "=", "2">>))

\* A text ends with another.
EndsWith(s, suf) ==
    Len(s) >= Len(suf) /\ SubSeq(s, Len(s) - Len(suf) + 1, Len(s)) = suf

\* The lines of a serialised text, as parse splits them: the last one is
\* the text after the last terminator.
OutputLines(o) == Split(ReplaceCRLF(o), LF)

\* C14: trailing terminator.  The serialised text is the top-level records'
\* texts joined by the terminator and followed by one terminator; it ends
\* with one terminator and not two, and none of its lines is empty.
C14_TrailingTerminator ==
    (pc = "serialized" /\ IsOk(out)) =>
        LET o    == out.val
            recs == [i \in 1..Len(doc.val.props) |-> SdpProp_to_string(doc.val.props[i]).val]
            ls   == OutputLines(o)
        IN  /\ o = Join(recs, CRLF) \o CRLF
            /\ EndsWith(o, CRLF)
            /\ ~EndsWith(o, CRLF \o CRLF)
            /\ Len(ls) >= 2
            /\ ls[Len(ls)] = <<>>
            /\ \A i \in 1..(Len(ls) - 1) : ls[i] # <<>>


\* C14, for a document that holds a record: the serialised text is the
\* top-level records' texts joined by the terminator and followed by one
\* terminator; it ends with one terminator and not two, and none of its
\* lines is empty.
C14_TrailingTerminator_Records ==
    (pc = "serialized" /\ IsOk(out) /\ Len(doc.val.props) > 0) =>
        LET o    == out.val
            recs == [i \in 1..Len(doc.val.props) |-> SdpProp_to_string(doc.val.props[i]).val]
            ls   == OutputLines(o)
        IN  /\ o = Join(recs, CRLF) \o CRLF
            /\ EndsWith(o, CRLF)
            /\ ~EndsWith(o, CRLF \o CRLF)
            /\ Len(ls) >= 2
            /\ ls[Len(ls)] = <<>>
            /\ \A i \in 1..(Len(ls) - 1) : ls[i] # <<>>

\* C14 witness: a document whose last record is a Media without nested
\* records was serialised to its two lines, each followed by a terminator.
C14_Witness ==
    /\ pc = "serialized"
    /\ lines = <<L_version, L_media>>
    /\ Len(doc.val.props) = 2
    /\ doc.val.props[2].props = <<>>
    /\ out = Ok(L_version \o CRLF \o L_media \o CRLF)

\* The value of a line has fewer tokens than its variant requires.
TooFewTokens(l) ==
    /\ HasEq(l)
    /\ l[1] # "="
    /\ LET v  == AfterFirstEq(l)
           tk == Split(v, " ")
       IN  CASE l[1] = "o" -> Len(tk) < 6
             [] l[1] = "c" -> Len(tk) < 3
             [] l[1] = "b" -> Len(Split(v, ":")) < 2
             [] l[1] = "t" -> Len(tk) < 2
             [] l[1] = "r" -> Len(tk) < 2
             [] l[1] = "z" -> Len(tk) % 2 = 1
             [] l[1] = "m" -> Len(tk) < 4
             [] l[1] = "k" -> v # <<"p", "r", "o", "m", "p", "t">> /\ Len(Split(v, ":")) < 2
             [] OTHER -> FALSE

\* C15: too few tokens is an error value, not a fault.  When a line of the
\* input has fewer tokens than its variant requires, parse returns an error.
C15_TooFewTokens ==
    (pc = "parsed" /\ \E i \in 1..Len(lines) : TooFewTokens(lines[i])) =>
        doc.kind = "Err"

\* A text of decimal digits only.
IsNumber(p) == Len(p) > 0 /\ \A i \in 1..Len(p) : p[i] \in Digits

\* A decimal value in 0..65535.
InPortRange(p) == IsNumber(p) /\ NumLeq(Canon(p), U16_MAX)

\* A number written with a '+' sign.
PlusForm(p) == Len(p) > 1 /\ p[1] = "+" /\ IsNumber(Tail(p))

\* C16: ports are unsigned 16-bit.  For the first m= line of a text, with a
\* media type and a protocol, when every earlier line parses: a port part
\* that is above 65535, negative or no number makes parse fail with the
\* numeric-conversion error; when every part is a decimal value in 0..65535
\* and parse succeeds, the Media holds exactly those values in order and its
\* text has them joined by '/' as its second token.
C16_Ports ==
    pc = "parsed" =>
        LET ne == NonEmpty(lines)
        IN  \A i \in 1..Len(ne) :
                (/\ IsMediaLine(ne[i])
                 /\ i = Min(MediaLineIndices(ne))
                 /\ Len(Split(ValueOf(ne[i]), " ")) >= 3
                 /\ Split(ValueOf(ne[i]), " ")[1] \in MediaForms
                 /\ EarlierLinesParse(ne, i)) =>
                    LET parts == Split(Split(ValueOf(ne[i]), " ")[2], "/")
                        vals  == [k \in 1..Len(parts) |-> Canon(parts[k])]
                    IN  /\ (\E k \in 1..Len(parts) :
                                ~InPortRange(parts[k]) /\ ~PlusForm(parts[k])) =>
                              (doc.kind = "Err" /\ doc.err[1] = "TypeParseFailed")
                        /\ ((\A k \in 1..Len(parts) : InPortRange(parts[k])) /\ IsOk(doc)) =>
                              /\ doc.val.props[i].t = "Media"
                              /\ doc.val.props[i].ports = vals
                              /\ Split(SdpProp_to_string(doc.val.props[i]).val, " ")[2]
                                    = Join(vals, <<"/">>)

\* C16 witness: an m= line with the port 70000 was parsed, and the parse
\* failed with the overflow error of the numeric conversion.
C16_Witness ==
    /\ pc = "parsed"
    /\ lines = <<L_version,
                 <<"m", "=", "t", "e", "x", "t", " ", "7", "0", "0", "0", "0", " ", "R", " ", "0">> >>
    /\ doc = Err(TypeParseFailed("PosOverflow"))

\* The texts an error value carries.
ErrorTexts(e) ==
    CASE e[1] = "UnknownToken" -> {e[2]}
      [] e[1] = "UnknownKey" -> {<<e[2]>>, e[3]}
      [] OTHER -> {}

\* A text occurs inside another.
Contains(s, sub) ==
    \E i \in 0..(Len(s) - Len(sub)) : SubSeq(s, i + 1, i + Len(sub)) = sub

\* C17: nested-line failures carry the line.  When the line under an m= line
\* (a line without "\r") fails to parse with an error, whatever the reason,
\* the error parse returns holds the text of that line.
C17_NestedErrorCarriesLine ==
    (pc = "parsed" /\ Len(lines) = 2 /\ lines[1] = L_media /\ Len(lines[2]) > 0
       /\ CR \notin Range(lines[2])
       /\ ~IsMediaLine(lines[2]) /\ MediaProp_from_str(lines[2]).kind = "Err") =>
        /\ doc.kind = "Err"
        /\ \E x \in ErrorTexts(doc.err) : Contains(x, lines[2])

\* C18: key/value split.  For every line of the input that holds a '=', the
\* split completes with the first character of the line as key and the text
\* after the first '=' as value; parsing a text of one such line does not
\* fault in the split.
C18_KeyValueSplit ==
    pc = "parsed" =>
        /\ \A i \in 1..Len(lines) :
              HasEq(lines[i]) =>
                  content_from_line(lines[i]) =
                      Ok([key |-> lines[i][1], value |-> AfterFirstEq(lines[i])])
        /\ (Len(lines) = 1 /\ HasEq(lines[1])) => doc # Panic("unwrap on None")

\* C19: session-level and media-level grammars agree.  A c=, b=, k= or a=
\* line under an m= line parses to the record the top-level grammar gives
\* for the same line, and the two levels serialise that record to the same
\* line.
C19_LevelsAgree ==
    (pc = "parsed" /\ Len(lines) = 2 /\ lines[1] = L_media /\ HasEq(lines[2])
       /\ lines[2][1] \in {"c", "b", "k", "a"} /\ CR \notin Range(lines[2])) =>
        LET s == SdpProp_from_str(lines[2])
        IN  /\ IsOk(doc) <=> IsOk(s)
            /\ IsOk(doc) =>
                  /\ doc.val.props[1].props = <<s.val>>
                  /\ SdpProp_to_string(s.val)
                        = Ok(MediaProp_to_string(doc.val.props[1].props[1]))

\* C20: RepeatTimes.  An r= line with an interval, an active duration and
\* k >= 0 start offsets parses to a record holding these tokens unchanged and
\* in order, and the record serialises to the identical line.
C20_RepeatTimes ==
    (pc = "parsed" /\ Len(lines) = 1 /\ Len(lines[1]) >= 2
       /\ lines[1][1] = "r" /\ lines[1][2] = "="
       /\ Len(Split(ValueOf(lines[1]), " ")) >= 2) =>
        LET tokens == Split(ValueOf(lines[1]), " ")
        IN  /\ IsOk(doc)
            /\ doc.val.props =
                  <<[t |-> "RepeatTimes", interval |-> tokens[1],
                     active_duration |-> tokens[2],
                     start_offsets |-> SubSeq(tokens, 3, Len(tokens))]>>
            /\ SdpProp_to_string(doc.val.props[1]) = Ok(lines[1])

\* The method a k= value stands for: Prompt for "prompt"; otherwise the
\* text before the first ':' names it and the text after it is the payload.
ExpectedMethod(v) ==
    LET colons == {i \in 1..Len(v) : v[i] = ":"}
        head   == IF colons = {} THEN v ELSE SubSeq(v, 1, Min(colons) - 1)
        rest   == IF colons = {} THEN <<>> ELSE SubSeq(v, Min(colons) + 1, Len(v))
    IN  IF v = <<"p", "r", "o", "m", "p", "t">> THEN Ok([m |-> "Prompt"])
        ELSE IF head = <<"c", "l", "e", "a", "r">> THEN Ok([m |-> "Clear", payload |-> rest])
        ELSE IF head = <<"b", "a", "s", "e", "6", "4">> THEN Ok([m |-> "Base64", payload |-> rest])
        ELSE IF head = <<"u", "r", "i">> THEN Ok([m |-> "Uri", payload |-> rest])
        ELSE Err(UnknownToken(v))

\* C21: encryption keys.  A k= line alone parses to the method its value
\* stands for (any other method name fails with UnknownToken), and for every
\* k= value that parses, serialising the method gives back the value.
C21_EncryptionKeys ==
    (pc = "parsed" /\ Len(lines) = 1 /\ Len(lines[1]) >= 2
       /\ lines[1][1] = "k" /\ lines[1][2] = "=") =>
        LET v == ValueOf(lines[1])
            e == ExpectedMethod(v)
        IN  /\ IsOk(e) => doc = Ok([props |-> <<[t |-> "EncryptionKeys", method |-> e.val]>>])
            /\ ~IsOk(e) => doc = e
            /\ IsOk(doc) => EncryptionKeyMethod_to_string(doc.val.props[1].method) = v

(***************************************************************************)
(* The WebRtcRedux element (src/src/webrtcredux/imp.rs)                    *)
(*                                                                         *)
(* Every step of an operation below is one critical section of the code:   *)
(* the statements between taking a Mutex and dropping its guard.  The      *)
(* application changes the element's state (sc: start and stop) and calls  *)
(* set_stream_id (app) from one thread, so that the two do not overlap;    *)
(* another thread (rel) runs release_pad and a streaming thread (ev) runs  *)
(* the pad functions; request_new_pad, add_ice_servers and unlock are one  *)
(* critical section each and run at any time.  ret is the value returned   *)
(* in the last step, if the step returned one.  The first panic is kept    *)
(* in fault and ends the run.                                              *)
(***************************************************************************)
\* The most pads requested from the element.
MaxPads == 1

\* The most tracks created by caps events.
MaxTracks == 1

\* The most ICE servers added to the configuration.
MaxIceServers == 1

Video == <<"v", "i", "d", "e", "o">>

Audio == <<"a", "u", "d", "i", "o">>

\* usize::to_string
RECURSIVE NatDigits(_)
NatDigits(n) ==
    IF n < 10 THEN <<DigitSeq[n + 1]>>
    ELSE NatDigits(n \div 10) \o <<DigitSeq[(n % 10) + 1]>>

\* The number of a canonical digit sequence.
RECURSIVE NatOf(_)
NatOf(ds) ==
    IF Len(ds) = 0 THEN 0
    ELSE 10 * NatOf(SubSeq(ds, 1, Len(ds) - 1)) + DigitVal(ds[Len(ds)])

\* format!("video_{}", id) and format!("audio_{}", id)
PadName(kind, id) == kind \o <<"_">> \o NatDigits(id)

\* HashMap<usize, MediaState>: a function on the set of its keys.
Insert(m, k, v) == [x \in (DOMAIN m) \cup {k} |-> IF x = k THEN v ELSE m[x]]

Remove(m, k) == [x \in (DOMAIN m) \ {k} |-> m[x]]

\* enum MediaState
NotConfigured == [s |-> "NotConfigured"]

IdConfigured(id) == [s |-> "IdConfigured", id |-> id]

Configured(track, duration) == [s |-> "Configured", track |-> track, duration |-> duration]

\* MediaState::add_id
add_id(self, new_id) ==
    IF self.s = "Configured" THEN self ELSE IdConfigured(new_id)

\* The video or the audio map of a State, and the State with it replaced.
MapOf(st, kind) == IF kind = Video THEN st.video_state ELSE st.audio_state

WithMap(st, kind, m) ==
    IF kind = Video THEN [st EXCEPT !.video_state = m] ELSE [st EXCEPT !.audio_state = m]

\* State::default()
DefaultState ==
    [video_state |-> <<>>, next_video_pad_id |-> 0,
     audio_state |-> <<>>, next_audio_pad_id |-> 0]

\* A thread between two operations.
Idle == [pc |-> "idle"]

\* A panic in an operation (an unwrap of the Option named in why, or
\* unreachable!()): the run ends there.
Faults(op, why) ==
    /\ fault' = Some(<<op, why>>)
    /\ ret' = <<>>
    /\ UNCHANGED <<state, webrtc_state, webrtc_settings, canceller, abort_flag,
                   pads, tracks, created, sc, app, rel, ev>>

\* The SDP caller is not part of the run.
NoSdp ==
    /\ lines = <<>>
    /\ ending = "LF"
    /\ trailing = FALSE
    /\ text = <<>>
    /\ pc = "off"
    /\ doc = Nil
    /\ out = Nil
    /\ doc2 = Nil

\* The element after ObjectSubclass::with_class.
ElementInit ==
    /\ state = Some(DefaultState)
    /\ webrtc_state = Some([peer_connection |-> None])
    /\ webrtc_settings = [config |-> Some(0)]
    /\ canceller = None
    /\ abort_flag = FALSE
    /\ pads = {}
    /\ tracks = 0
    /\ created = 0
    /\ sc = Idle
    /\ app = Idle
    /\ rel = Idle
    /\ ev = Idle
    /\ ret = <<>>
    /\ fault = None
    /\ NoSdp
    /\ NoSender


\* The value an operation returned last.
Returned(op, val) == [op |-> op, val |-> val]

\* The pad templates a pad is requested for: the two of the element and
\* one of another element.
Templates == {"video_%u", "audio_%u", "src_%u"}

\* ElementImpl::request_new_pad: the state lock is held throughout.
request_new_pad(templ) ==
    /\ fault = None
    /\ IF state = None THEN Faults("request_new_pad", "state is None")
       ELSE LET st == state[1]
            IN  /\ CASE templ = "video_%u" ->
                          /\ st.next_video_pad_id + st.next_audio_pad_id < MaxPads
                          /\ pads' = pads \cup {[kind |-> Video, id |-> st.next_video_pad_id]}
                          /\ state' = Some([st EXCEPT
                                 !.video_state = Insert(@, st.next_video_pad_id, NotConfigured),
                                 !.next_video_pad_id = @ + 1])
                          /\ ret' = Returned("request_new_pad",
                                             Some(PadName(Video, st.next_video_pad_id)))
                     [] templ = "audio_%u" ->
                          /\ st.next_video_pad_id + st.next_audio_pad_id < MaxPads
                          /\ pads' = pads \cup {[kind |-> Audio, id |-> st.next_audio_pad_id]}
                          /\ state' = Some([st EXCEPT
                                 !.audio_state = Insert(@, st.next_audio_pad_id, NotConfigured),
                                 !.next_audio_pad_id = @ + 1])
                          /\ ret' = Returned("request_new_pad",
                                             Some(PadName(Audio, st.next_audio_pad_id)))
                     [] OTHER ->
                          /\ ret' = Returned("request_new_pad", None)
                          /\ UNCHANGED <<state, pads>>
                /\ UNCHANGED <<webrtc_state, webrtc_settings, canceller, abort_flag,
                               tracks, created, sc, app, rel, ev, fault>>
    /\ UNCHANGED <<sdp_vars, sender_vars>>

\* release_pad, first critical section: return when the state was dropped.
ReleasePadCheck(pad) ==
    /\ fault = None
    /\ rel.pc = "idle"
    /\ pad \in pads
    /\ IF state = None
       THEN /\ ret' = Returned("release_pad", "state dropped")
            /\ UNCHANGED rel
       ELSE /\ rel' = [pc |-> "remove", pad |-> pad]
            /\ ret' = <<>>
    /\ UNCHANGED <<state, webrtc_state, webrtc_settings, canceller, abort_flag,
                   pads, tracks, created, sc, app, ev, fault>>
    /\ UNCHANGED <<sdp_vars, sender_vars>>

\* release_pad, second critical section: the entry of the id parsed from
\* the pad's name is removed, then the parent releases the pad.
ReleasePadRemove ==
    /\ fault = None
    /\ rel.pc = "remove"
    /\ IF state = None THEN Faults("release_pad", "state is None")
       ELSE LET split == Split(PadName(rel.pad.kind, rel.pad.id), "_")
                id    == NatOf(ParseUsize(split[2]).val)
                kind  == IF split[1] = Video THEN Video ELSE Audio
            IN  /\ state' = Some(WithMap(state[1], kind, Remove(MapOf(state[1], kind), id)))
                /\ pads' = pads \ {rel.pad}
                /\ rel' = Idle
                /\ ret' = Returned("release_pad", "released")
                /\ UNCHANGED <<webrtc_state, webrtc_settings, canceller, abort_flag,
                               tracks, created, sc, app, ev, fault>>
    /\ UNCHANGED <<sdp_vars, sender_vars>>

\* The pad names and stream ids set_stream_id is called with: the names of
\* the element's pads, a name without '_', a name without a number, and a
\* name of another kind.
PadNameInputs ==
    {PadName(k, i) : k \in {Video, Audio}, i \in 0..(MaxPads - 1)}
    \cup {Video, Video \o <<"_", "x">>, <<"d", "a", "t", "a", "_", "0">>}

StreamIds == {<<"s">>}

\* set_stream_id, up to the end of its first critical section: the name is
\* split and parsed, and the id is looked up.
SetStreamIdCheck(pad_name, stream_id) ==
    /\ fault = None
    /\ sc.pc = "idle"
    /\ app.pc = "idle"
    /\ LET split == Split(pad_name, "_")
           id    == IF Len(split) = 2 THEN ParseUsize(split[2]) ELSE Err(<<>>)
       IN  IF Len(split) # 2
           THEN /\ ret' = Returned("set_stream_id", Err("Pad with name is invalid"))
                /\ UNCHANGED <<state, webrtc_state, webrtc_settings, canceller, abort_flag,
                               pads, tracks, created, sc, app, rel, ev, fault>>
           ELSE IF ~IsOk(id)
           THEN /\ ret' = Returned("set_stream_id", Err("Couldn't parse into number"))
                /\ UNCHANGED <<state, webrtc_state, webrtc_settings, canceller, abort_flag,
                               pads, tracks, created, sc, app, rel, ev, fault>>
           ELSE IF split[1] \notin {Video, Audio}
           THEN /\ ret' = Returned("set_stream_id", Err("Pad with type not found"))
                /\ UNCHANGED <<state, webrtc_state, webrtc_settings, canceller, abort_flag,
                               pads, tracks, created, sc, app, rel, ev, fault>>
           ELSE IF state = None THEN Faults("set_stream_id", "state is None")
           ELSE IF NatOf(id.val) \notin DOMAIN MapOf(state[1], split[1])
           THEN /\ ret' = Returned("set_stream_id", Err("Invalid ID"))
                /\ UNCHANGED <<state, webrtc_state, webrtc_settings, canceller, abort_flag,
                               pads, tracks, created, sc, app, rel, ev, fault>>
           ELSE /\ app' = [pc |-> "get", kind |-> split[1], id |-> NatOf(id.val),
                           stream_id |-> stream_id]
                /\ ret' = <<>>
                /\ UNCHANGED <<state, webrtc_state, webrtc_settings, canceller, abort_flag,
                               pads, tracks, created, sc, rel, ev, fault>>
    /\ UNCHANGED <<sdp_vars, sender_vars>>

\* set_stream_id, second critical section: the entry is read and cloned.
SetStreamIdGet ==
    /\ fault = None
    /\ app.pc = "get"
    /\ IF state = None THEN Faults("set_stream_id", "state is None")
       ELSE IF app.id \notin DOMAIN MapOf(state[1], app.kind)
       THEN Faults("set_stream_id", "entry is None")
       ELSE /\ app' = [pc |-> "insert", kind |-> app.kind, id |-> app.id,
                       stream_id |-> app.stream_id,
                       current |-> MapOf(state[1], app.kind)[app.id]]
            /\ ret' = <<>>
            /\ UNCHANGED <<state, webrtc_state, webrtc_settings, canceller, abort_flag,
                           pads, tracks, created, sc, rel, ev, fault>>
    /\ UNCHANGED <<sdp_vars, sender_vars>>

\* set_stream_id, third critical section: the entry is overwritten with
\* the clone given the stream id.
SetStreamIdInsert ==
    /\ fault = None
    /\ app.pc = "insert"
    /\ IF state = None THEN Faults("set_stream_id", "state is None")
       ELSE /\ state' = Some(WithMap(state[1], app.kind,
                                     Insert(MapOf(state[1], app.kind), app.id,
                                            add_id(app.current, app.stream_id))))
            /\ app' = Idle
            /\ ret' = Returned("set_stream_id", Ok("()"))
            /\ UNCHANGED <<webrtc_state, webrtc_settings, canceller, abort_flag,
                           pads, tracks, created, sc, rel, ev, fault>>
    /\ UNCHANGED <<sdp_vars, sender_vars>>


\* start holds the webrtc_settings and webrtc_state locks from taking the
\* configuration until wait has returned.
StartHoldsLocks == sc.pc \in {"waiting", "waited"}

\* The events a pad receives, and the duration a caps event stands for.
Events == {"GstEventCaps", "GstEventEos"}

Durations == {"40ms"}

\* The pad's event function up to the end of its first critical section:
\* for a caps event the stream id is read from the pad's entry and a track
\* is made for it.
PadEvent(pad, event, duration) ==
    /\ fault = None
    /\ ev.pc = "idle"
    /\ pad \in pads
    /\ IF event # "GstEventCaps"
       THEN /\ ret' = Returned("event", TRUE)
            /\ UNCHANGED <<state, webrtc_state, webrtc_settings, canceller, abort_flag,
                           pads, tracks, created, sc, app, rel, ev, fault>>
       ELSE IF state = None THEN Faults("event", "state is None")
       ELSE IF pad.id \notin DOMAIN MapOf(state[1], pad.kind)
       THEN Faults("event", "entry is None")
       ELSE IF MapOf(state[1], pad.kind)[pad.id].s # "IdConfigured"
       THEN Faults("event", "unreachable")
       ELSE /\ tracks < MaxTracks
            /\ tracks' = tracks + 1
            /\ ev' = [pc |-> "add_track", pad |-> pad, duration |-> duration,
                      track |-> [kind |-> pad.kind, n |-> tracks + 1,
                                 stream_id |-> MapOf(state[1], pad.kind)[pad.id].id]]
            /\ ret' = <<>>
            /\ UNCHANGED <<state, webrtc_state, webrtc_settings, canceller, abort_flag,
                           pads, created, sc, app, rel, fault>>
    /\ UNCHANGED <<sdp_vars, sender_vars>>

\* The event function's second critical section: the track is added to the
\* peer connection.
PadEventAddTrack ==
    /\ fault = None
    /\ ev.pc = "add_track"
    /\ ~StartHoldsLocks
    /\ IF webrtc_state = None THEN Faults("event", "webrtc_state is None")
       ELSE IF webrtc_state[1].peer_connection = None
       THEN Faults("event", "peer_connection is None")
       ELSE /\ webrtc_state' =
                   Some([peer_connection |->
                            Some([webrtc_state[1].peer_connection[1] EXCEPT
                                     !.tracks = @ \cup {ev.track}])])
            /\ ev' = [ev EXCEPT !.pc = "insert"]
            /\ ret' = <<>>
            /\ UNCHANGED <<state, webrtc_settings, canceller, abort_flag,
                           pads, tracks, created, sc, app, rel, fault>>
    /\ UNCHANGED <<sdp_vars, sender_vars>>

\* The event function's third critical section: the pad's entry becomes
\* Configured with the track.
PadEventInsert ==
    /\ fault = None
    /\ ev.pc = "insert"
    /\ IF state = None THEN Faults("event", "state is None")
       ELSE /\ state' = Some(WithMap(state[1], ev.pad.kind,
                                     Insert(MapOf(state[1], ev.pad.kind), ev.pad.id,
                                            Configured(ev.track, ev.duration))))
            /\ ev' = Idle
            /\ ret' = Returned("event", TRUE)
            /\ UNCHANGED <<webrtc_state, webrtc_settings, canceller, abort_flag,
                           pads, tracks, created, sc, app, rel, fault>>
    /\ UNCHANGED <<sdp_vars, sender_vars>>

\* The pad's chain function: a buffer is written to the track of a
\* Configured entry and dropped otherwise; it returns Ok either way.
PadChain(pad) ==
    /\ fault = None
    /\ ev.pc = "idle"
    /\ pad \in pads
    /\ IF state = None THEN Faults("chain", "state is None")
       ELSE IF pad.id \notin DOMAIN MapOf(state[1], pad.kind)
       THEN Faults("chain", "entry is None")
       ELSE /\ ret' = Returned("chain", Ok("Ok"))
            /\ UNCHANGED <<state, webrtc_state, webrtc_settings, canceller, abort_flag,
                           pads, tracks, created, sc, app, rel, ev, fault>>
    /\ UNCHANGED <<sdp_vars, sender_vars>>

\* A start that gives the pad's name to every entry without a track.
WithDefaultIds_Overwriting(m, kind) ==
    [k \in DOMAIN m |->
        IF m[k].s # "Configured" THEN IdConfigured(PadName(kind, k)) ELSE m[k]]

\* The entries of a map that are NotConfigured given the pad's name as
\* stream id.
WithDefaultIds(m, kind) ==
    [k \in DOMAIN m |->
        IF m[k].s = "NotConfigured" THEN add_id(m[k], PadName(kind, k)) ELSE m[k]]

\* start, first critical section: the audio pads without a stream id.
StartAudioIds ==
    /\ fault = None
    /\ app.pc = "idle"
    /\ sc.pc = "idle"
    /\ IF state = None THEN Faults("start", "state is None")
       ELSE /\ state' = Some([state[1] EXCEPT !.audio_state = WithDefaultIds(@, Audio)])
            /\ sc' = [pc |-> "video_ids"]
            /\ ret' = <<>>
            /\ UNCHANGED <<webrtc_state, webrtc_settings, canceller, abort_flag,
                           pads, tracks, created, app, rel, ev, fault>>
    /\ UNCHANGED <<sdp_vars, sender_vars>>

\* start, second critical section: the video pads without a stream id.
StartVideoIds ==
    /\ fault = None
    /\ sc.pc = "video_ids"
    /\ IF state = None THEN Faults("start", "state is None")
       ELSE /\ state' = Some([state[1] EXCEPT !.video_state = WithDefaultIds(@, Video)])
            /\ sc' = [pc |-> "take_config"]
            /\ ret' = <<>>
            /\ UNCHANGED <<webrtc_state, webrtc_settings, canceller, abort_flag,
                           pads, tracks, created, app, rel, ev, fault>>
    /\ UNCHANGED <<sdp_vars, sender_vars>>

\* The settings after a start that leaves the configuration where it is.
TakeConfig_Cloned(settings) == settings

\* The settings after config.take().
TakeConfig(settings) == [settings EXCEPT !.config = None]

\* start takes the configuration; with one, it locks the WebRTC state and
\* wait puts a new abort handle into the canceller.
StartTakeConfig ==
    /\ fault = None
    /\ sc.pc = "take_config"
    /\ IF webrtc_settings.config = None
       THEN /\ ret' = Returned("start", Err("WebRTC configuration not set"))
            /\ sc' = Idle
            /\ UNCHANGED <<state, webrtc_state, webrtc_settings, canceller, abort_flag,
                           pads, tracks, created, app, rel, ev, fault>>
       ELSE IF webrtc_state = None
       THEN /\ fault' = Some(<<"start", "webrtc_state is None">>)
            /\ webrtc_settings' = TakeConfig(webrtc_settings)
            /\ ret' = <<>>
            /\ UNCHANGED <<state, webrtc_state, canceller, abort_flag,
                           pads, tracks, created, sc, app, rel, ev>>
       ELSE /\ webrtc_settings' = TakeConfig(webrtc_settings)
            /\ canceller' = Some("abort_handle")
            /\ abort_flag' = FALSE
            /\ sc' = [pc |-> "waiting"]
            /\ ret' = <<>>
            /\ UNCHANGED <<state, webrtc_state, pads, tracks, created,
                           app, rel, ev, fault>>
    /\ UNCHANGED <<sdp_vars, sender_vars>>

\* A wait whose future takes no notice of the abort handle.
WaitOutcomes_IgnoresAbort ==
    {Ok([n |-> created + 1, tracks |-> {}]),
     Err(Some("Failed to create PeerConnection")),
     Err(Some("Request timeout"))}

\* The outcomes of the future wait blocks on: Err(None) when it was
\* aborted; otherwise the new peer connection, the error of the WebRTC API,
\* or the timeout.
WaitOutcomes ==
    IF abort_flag THEN {Err(None)}
    ELSE {Ok([n |-> created + 1, tracks |-> {}]),
          Err(Some("Failed to create PeerConnection")),
          Err(Some("Request timeout"))}

\* block_on returns in wait.
WaitReturn ==
    /\ fault = None
    /\ sc.pc = "waiting"
    /\ \E res \in WaitOutcomes :
          /\ sc' = [pc |-> "waited", res |-> res]
          /\ created' = IF IsOk(res) THEN created + 1 ELSE created
    /\ ret' = <<>>
    /\ UNCHANGED <<state, webrtc_state, webrtc_settings, canceller, abort_flag,
                   pads, tracks, app, rel, ev, fault>>
    /\ UNCHANGED <<sdp_vars, sender_vars>>

\* wait clears the canceller and returns; start returns the error of a
\* failed wait.
WaitClear ==
    /\ fault = None
    /\ sc.pc = "waited"
    /\ canceller' = None
    /\ IF IsOk(sc.res)
       THEN /\ sc' = [pc |-> "store", peer_connection |-> sc.res.val]
            /\ ret' = <<>>
       ELSE /\ sc' = Idle
            /\ ret' = Returned("start",
                               Err(IF sc.res.err = None
                                   THEN "Failed to wait for PeerConnection"
                                   ELSE sc.res.err[1]))
    /\ UNCHANGED <<state, webrtc_state, webrtc_settings, abort_flag,
                   pads, tracks, created, app, rel, ev, fault>>
    /\ UNCHANGED <<sdp_vars, sender_vars>>

\* start, last critical section: the peer connection is stored.
StartStore ==
    /\ fault = None
    /\ sc.pc = "store"
    /\ IF webrtc_state = None THEN Faults("start", "webrtc_state is None")
       ELSE /\ webrtc_state' = Some([peer_connection |-> Some(sc.peer_connection)])
            /\ sc' = Idle
            /\ ret' = Returned("start", Ok("()"))
            /\ UNCHANGED <<state, webrtc_settings, canceller, abort_flag,
                           pads, tracks, created, app, rel, ev, fault>>
    /\ UNCHANGED <<sdp_vars, sender_vars>>

\* stop, first critical section: the pad state is dropped.
StopState ==
    /\ fault = None
    /\ app.pc = "idle"
    /\ sc.pc = "idle"
    /\ state' = None
    /\ sc' = [pc |-> "stop_webrtc"]
    /\ ret' = <<>>
    /\ UNCHANGED <<webrtc_state, webrtc_settings, canceller, abort_flag,
                   pads, tracks, created, app, rel, ev, fault>>
    /\ UNCHANGED <<sdp_vars, sender_vars>>

\* stop, second critical section: the WebRTC state is dropped.
StopWebRtc ==
    /\ fault = None
    /\ sc.pc = "stop_webrtc"
    /\ webrtc_state' = None
    /\ sc' = Idle
    /\ ret' = Returned("stop", Ok("()"))
    /\ UNCHANGED <<state, webrtc_settings, canceller, abort_flag,
                   pads, tracks, created, app, rel, ev, fault>>
    /\ UNCHANGED <<sdp_vars, sender_vars>>

\* unlock: the abort handle of the canceller, when there is one, is fired.
unlock ==
    /\ fault = None
    /\ abort_flag' = (abort_flag \/ canceller # None)
    /\ ret' = <<>>
    /\ UNCHANGED <<state, webrtc_state, webrtc_settings, canceller,
                   pads, tracks, created, sc, app, rel, ev, fault>>
    /\ UNCHANGED <<sdp_vars, sender_vars>>

\* add_ice_servers: the servers are appended to the configuration while
\* there is one.
add_ice_servers(n) ==
    /\ fault = None
    /\ ~StartHoldsLocks
    /\ IF webrtc_settings.config # None
       THEN /\ webrtc_settings.config[1] + n <= MaxIceServers
            /\ webrtc_settings' = [config |-> Some(webrtc_settings.config[1] + n)]
            /\ ret' = <<>>
       ELSE /\ ret' = <<>>
            /\ UNCHANGED webrtc_settings
    /\ UNCHANGED <<state, webrtc_state, canceller, abort_flag,
                   pads, tracks, created, sc, app, rel, ev, fault>>
    /\ UNCHANGED <<sdp_vars, sender_vars>>

ElementNext ==
    \/ \E templ \in Templates : request_new_pad(templ)
    \/ \E pad \in pads : ReleasePadCheck(pad)
    \/ ReleasePadRemove
    \/ \E pad_name \in PadNameInputs, stream_id \in StreamIds :
          SetStreamIdCheck(pad_name, stream_id)
    \/ SetStreamIdGet
    \/ SetStreamIdInsert
    \/ \E pad \in pads, event \in Events, duration \in Durations :
          PadEvent(pad, event, duration)
    \/ PadEventAddTrack
    \/ PadEventInsert
    \/ \E pad \in pads : PadChain(pad)
    \/ StartAudioIds
    \/ StartVideoIds
    \/ StartTakeConfig
    \/ WaitReturn
    \/ WaitClear
    \/ StartStore
    \/ StopState
    \/ StopWebRtc
    \/ unlock
    \/ \E n \in 1..MaxIceServers : add_ice_servers(n)

ElementSpec == ElementInit /\ [][ElementNext]_vars


\* The kinds of pad, and the place of a media state in the order
\* NotConfigured, IdConfigured, Configured.
Kinds == {Video, Audio}

Rank(entry) ==
    IF entry.s = "NotConfigured" THEN 0 ELSE IF entry.s = "IdConfigured" THEN 1 ELSE 2

\* The entries present before and after a step.
KeptKeys(kind) ==
    IF state = None \/ state' = None THEN {}
    ELSE (DOMAIN MapOf(state[1], kind)) \cap (DOMAIN MapOf(state'[1], kind))

\* C22: pad media state only moves forward.  In every step an entry that
\* stays in its map does not go back in the order NotConfigured,
\* IdConfigured, Configured, and an entry that is Configured stays the same
\* Configured entry, with the same track.
C22_ForwardOnly ==
    [][\A kind \in Kinds : \A id \in KeptKeys(kind) :
          /\ Rank(MapOf(state'[1], kind)[id]) >= Rank(MapOf(state[1], kind)[id])
          /\ MapOf(state[1], kind)[id].s = "Configured"
                => MapOf(state'[1], kind)[id] = MapOf(state[1], kind)[id]]_vars


\* The id the next pad of a kind gets.
NextId(st, kind) == IF kind = Video THEN st.next_video_pad_id ELSE st.next_audio_pad_id

\* The ids that a step adds to a map.
NewKeys(kind) ==
    IF state = None \/ state' = None THEN {}
    ELSE (DOMAIN MapOf(state'[1], kind)) \ (DOMAIN MapOf(state[1], kind))

\* C23: set_stream_id against release_pad.  No step of set_stream_id faults
\* on a missing entry, and the only id a step adds to a map is the id of a
\* newly requested pad, so that an id removed by release_pad is never in
\* the map again.
C23_StreamIdAgainstRelease ==
    [][/\ fault' # Some(<<"set_stream_id", "entry is None">>)
       /\ \A kind \in Kinds : \A id \in NewKeys(kind) :
             /\ id = NextId(state[1], kind)
             /\ NextId(state'[1], kind) = id + 1]_vars


\* C24: caps events are only handled in state IdConfigured.  Whenever the
\* caps-event handler of a pad runs, the pad's entry is IdConfigured: the
\* handler never runs into its unreachable!() branch.
C24_CapsOnlyWhenIdConfigured == fault # Some(<<"event", "unreachable">>)


\* C25: pad state is present whenever it is read.  No operation unwraps
\* the element's pad state or its WebRTC state after stop has dropped it.
C25_StatePresentWhenRead ==
    fault = None \/ fault[1][2] \notin {"state is None", "webrtc_state is None"}


\* The peer connection of the element, if any.
PeerConnection ==
    IF webrtc_state = None THEN None ELSE webrtc_state[1].peer_connection

ConfigNotSet == Returned("start", Err("WebRTC configuration not set"))

\* C26: the RTC configuration is consumed by the first start attempt.
\* Every start that returns leaves no configuration behind, whatever its
\* result; without a configuration no step brings one back
\* (add_ice_servers changes nothing); a start that finds none returns the
\* 'WebRTC configuration not set' error and leaves the WebRTC state as it
\* is; a stored peer connection is never replaced by another; at most one
\* peer connection is ever created.
C26_ConfigConsumedOnce ==
    [][/\ (ret' # <<>> /\ ret'.op = "start") => webrtc_settings'.config = None
       /\ webrtc_settings.config = None => webrtc_settings'.config = None
       /\ (sc.pc = "take_config" /\ webrtc_settings.config = None /\ sc' # sc)
             => (ret' = ConfigNotSet /\ webrtc_state' = webrtc_state)
       /\ (PeerConnection # None /\ PeerConnection' # None)
             => PeerConnection'[1].n = PeerConnection[1].n
       /\ created' <= 1]_vars

\* A second start has returned the error while the peer connection of the
\* first is in place.
C26_Witness ==
    /\ ret # <<>>
    /\ ret.op = "start"
    /\ ret = ConfigNotSet
    /\ created = 1
    /\ PeerConnection # None


\* The stream id start gives to pad k of a kind, for k below ten.
DefaultId(kind, k) ==
    kind \o <<"_", <<"0", "1", "2", "3", "4", "5", "6", "7", "8", "9">>[k + 1]>>

\* What start's loop over a map is to leave of it.
AfterDefaultIds(m, kind) ==
    /\ DOMAIN m = DOMAIN MapOf(state[1], kind)
    /\ \A k \in DOMAIN m :
          /\ m[k].s # "NotConfigured"
          /\ IF MapOf(state[1], kind)[k].s = "NotConfigured"
             THEN m[k] = IdConfigured(DefaultId(kind, k))
             ELSE m[k] = MapOf(state[1], kind)[k]

\* C28: default stream ids at start.  The audio loop of start changes
\* exactly the NotConfigured audio entries, to IdConfigured("audio_k"), and
\* the video loop exactly the NotConfigured video entries, to
\* IdConfigured("video_k"); the other map and both counters stay as they
\* are; and no step makes an entry NotConfigured again.
C28_DefaultStreamIds ==
    [][/\ (sc.pc = "idle" /\ sc'.pc = "video_ids")
             => /\ AfterDefaultIds(state'[1].audio_state, Audio)
                /\ state'[1] = [state[1] EXCEPT !.audio_state = state'[1].audio_state]
       /\ (sc.pc = "video_ids" /\ sc'.pc = "take_config")
             => /\ AfterDefaultIds(state'[1].video_state, Video)
                /\ state'[1] = [state[1] EXCEPT !.video_state = state'[1].video_state]
       /\ \A kind \in Kinds : \A id \in KeptKeys(kind) :
             MapOf(state'[1], kind)[id].s = "NotConfigured"
                => MapOf(state[1], kind)[id].s = "NotConfigured"]_vars

\* Both loops of a start have run and a pad has its name as stream id.
C28_Witness ==
    /\ sc.pc = "take_config"
    /\ state # None
    /\ \E kind \in Kinds : \E k \in DOMAIN MapOf(state[1], kind) :
          MapOf(state[1], kind)[k] \in {IdConfigured(DefaultId(kind, k))}


\* What a successful request for a pad of a kind is to do: the pad is
\* named after the kind's counter, a NotConfigured entry is put under that
\* id, the counter goes up by one and the other kind is left alone.
RequestedPad(kind) ==
    LET id == NextId(state[1], kind) IN
    /\ ret' = Returned("request_new_pad", Some(DefaultId(kind, id)))
    /\ MapOf(state'[1], kind) = Insert(MapOf(state[1], kind), id, NotConfigured)
    /\ NextId(state'[1], kind) = id + 1
    /\ \A other \in Kinds \ {kind} :
          /\ MapOf(state'[1], other) = MapOf(state[1], other)
          /\ NextId(state'[1], other) = NextId(state[1], other)

\* A step in which request_new_pad returns or panics.
RequestStep ==
    \/ fault' # None /\ fault = None /\ fault'[1][1] = "request_new_pad"
    \/ ret' # <<>> /\ ret'.op = "request_new_pad"

\* C29: pad ids are unique and never reused.  A successful request for
\* the video (audio) template does what RequestedPad says; every key of a
\* map is below the map's counter; the counters never go down and a step
\* of release_pad leaves them as they are; a request for any other
\* template returns no pad and changes neither the pad state nor the pads.
C29_PadIds ==
    [][/\ (RequestStep /\ request_new_pad("video_%u") /\ fault' = None)
             => RequestedPad(Video)
       /\ (RequestStep /\ request_new_pad("audio_%u") /\ fault' = None)
             => RequestedPad(Audio)
       /\ state' # None =>
             \A kind \in Kinds : \A id \in DOMAIN MapOf(state'[1], kind) :
                id < NextId(state'[1], kind)
       /\ (state # None /\ state' # None) =>
             \A kind \in Kinds : NextId(state'[1], kind) >= NextId(state[1], kind)
       /\ (rel' # rel /\ state # None /\ state' # None) =>
             \A kind \in Kinds : NextId(state'[1], kind) = NextId(state[1], kind)
       /\ (RequestStep /\ request_new_pad("src_%u")) =>
             /\ ret' = Returned("request_new_pad", None)
             /\ state' = state
             /\ pads' = pads]_vars


FailedToWait == Returned("start", Err("Failed to wait for PeerConnection"))

\* A wait is in progress from the step that puts the abort handle into the
\* canceller to the step that takes it out.
WaitInProgress == sc.pc \in {"waiting", "waited"}

\* The step in which wait returns to start.
WaitReturns == sc.pc = "waited" /\ sc'.pc # "waited"

\* What C30 says apart from the effect of an unlock during the wait: the
\* canceller holds a handle exactly while a wait is in progress; the abort
\* flag is only raised through a handle in the canceller, and every wait
\* begins with a new handle that is not aborted.
CancellerFollowsWait ==
    /\ (canceller' # None) <=> WaitInProgress'
    /\ (abort_flag' /\ ~abort_flag) => canceller # None
    /\ (~WaitInProgress /\ WaitInProgress') => ~abort_flag'

\* C30 as stated: cancellation of a blocking wait.  With an unlock having
\* arrived while the wait was in progress, wait returns Err(None) and
\* start returns the 'Failed to wait for PeerConnection' error without
\* storing a peer connection.
C30_Cancellation ==
    [][/\ CancellerFollowsWait
       /\ (WaitReturns /\ abort_flag)
             => /\ sc.res = Err(None)
                /\ ret' = FailedToWait
                /\ sc' = Idle
                /\ webrtc_state' = webrtc_state]_vars

\* C30, amended: an unlock that arrives while the future of the wait is
\* still pending aborts it, the future ends with Err(None), which it does
\* for no other reason, and a wait that ends so makes start return the
\* 'Failed to wait for PeerConnection' error without storing a peer
\* connection; an unlock that arrives when the future has ended leaves
\* the result of the wait as it is.
C30_Cancellation_Pending ==
    [][/\ CancellerFollowsWait
       /\ (sc.pc = "waiting" /\ sc'.pc = "waited")
             => (abort_flag <=> sc'.res = Err(None))
       /\ (sc.pc = "waited" /\ sc'.pc = "waited") => sc' = sc
       /\ (WaitReturns /\ sc.res = Err(None))
             => /\ ret' = FailedToWait
                /\ sc' = Idle
                /\ webrtc_state' = webrtc_state]_vars

\* A start has returned the error of an aborted wait and there is no
\* peer connection.
C30_Witness ==
    /\ ret # <<>>
    /\ ret.op = "start"
    /\ ret = FailedToWait
    /\ abort_flag
    /\ PeerConnection = None


(***************************************************************************)
(* The WebRtcReduxSender element (src/src/webrtcredux/sender/imp.rs).      *)
(*                                                                         *)
(* Each acquisition of the state mutex is one step.  add_info runs on the  *)
(* thread of its caller and spawns one task per call; the sending half of  *)
(* a task's on_connect channel is with the environment, which sends the    *)
(* signal or drops the half.  change_state is called by the application    *)
(* and by the tasks, render by the streaming thread.                       *)
(***************************************************************************)
\* The most calls of add_info.
MaxAddInfo == 1

\* enum MediaType
SenderMediaTypes == {"Video", "Audio"}

\* The durations given to add_info and carried by a buffer.
ClockTimes == {None, Some("20ms")}

\* gst::StateChange, as far as the sender is taken through it.
Transitions == {"ReadyToPaused", "PausedToPlaying", "PlayingToPaused"}

\* What parent_change_state can return.
ParentResults == {Ok("Success"), Err("StateChangeError")}

\* State::default()
DefaultSenderState ==
    [track |-> None, duration |-> None, handle |-> None, media_type |-> None,
     async_complete |-> FALSE]

\* The return of a change_state call: who called, the transition, whether
\* it was passed to parent_change_state, and the value.
Changed(by, transition, parent, val) ==
    [by |-> by, transition |-> transition, parent |-> parent, val |-> val]

\* A panic in the sender: the run ends there.
SenderFaults(op, why) ==
    /\ sender_fault' = Some(<<op, why>>)
    /\ sender_ret' = <<>>
    /\ UNCHANGED <<sender, add, spawned, cs, rn, clock>>

\* The sender after construction.
SenderInit ==
    /\ sender = DefaultSenderState
    /\ add = Idle
    /\ spawned = <<>>
    /\ cs = Idle
    /\ rn = Idle
    /\ clock = None
    /\ sender_ret = <<>>
    /\ sender_fault = None
    /\ NoSdp
    /\ NoElement

\* add_info, first critical section: the track.
AddInfoTrack(media_type, duration) ==
    /\ sender_fault = None
    /\ add.pc = "idle"
    /\ Len(spawned) < MaxAddInfo
    /\ sender' = [sender EXCEPT !.track = Some("track")]
    /\ add' = [pc |-> "media_type", media_type |-> media_type, duration |-> duration]
    /\ sender_ret' = <<>>
    /\ UNCHANGED <<spawned, cs, rn, clock, sender_fault>>
    /\ UNCHANGED <<sdp_vars, element_vars>>

\* add_info, second critical section: the media type.
AddInfoMediaType ==
    /\ sender_fault = None
    /\ add.pc = "media_type"
    /\ sender' = [sender EXCEPT !.media_type = Some(add.media_type)]
    /\ add' = [add EXCEPT !.pc = "duration"]
    /\ sender_ret' = <<>>
    /\ UNCHANGED <<spawned, cs, rn, clock, sender_fault>>
    /\ UNCHANGED <<sdp_vars, element_vars>>

\* add_info, third critical section: the duration.
AddInfoDuration ==
    /\ sender_fault = None
    /\ add.pc = "duration"
    /\ sender' = [sender EXCEPT !.duration = add.duration]
    /\ add' = [add EXCEPT !.pc = "spawn"]
    /\ sender_ret' = <<>>
    /\ UNCHANGED <<spawned, cs, rn, clock, sender_fault>>
    /\ UNCHANGED <<sdp_vars, element_vars>>

\* add_info spawns the task that awaits on_connect.
AddInfoSpawn ==
    /\ sender_fault = None
    /\ add.pc = "spawn"
    /\ spawned' = Append(spawned, [pc |-> "await", on_connect |-> "open"])
    /\ add' = [add EXCEPT !.pc = "handle"]
    /\ sender_ret' = <<>>
    /\ UNCHANGED <<sender, cs, rn, clock, sender_fault>>
    /\ UNCHANGED <<sdp_vars, element_vars>>

\* add_info, last critical section: the runtime handle.
AddInfoHandle ==
    /\ sender_fault = None
    /\ add.pc = "handle"
    /\ sender' = [sender EXCEPT !.handle = Some("handle")]
    /\ add' = Idle
    /\ sender_ret' = <<>>
    /\ UNCHANGED <<spawned, cs, rn, clock, sender_fault>>
    /\ UNCHANGED <<sdp_vars, element_vars>>

\* The holder of the sending half of a task's on_connect channel sends the
\* signal, or drops the half without sending.
OnConnect(i, outcome) ==
    /\ sender_fault = None
    /\ spawned[i].on_connect = "open"
    /\ spawned' = [spawned EXCEPT ![i].on_connect = outcome]
    /\ sender_ret' = <<>>
    /\ UNCHANGED <<sender, add, cs, rn, clock, sender_fault>>
    /\ UNCHANGED <<sdp_vars, element_vars>>

\* A task that goes on after on_connect.await whatever the result.
TaskAwait_IgnoresError(i) ==
    /\ sender_fault = None
    /\ spawned[i].pc = "await"
    /\ spawned[i].on_connect # "open"
    /\ spawned' = [spawned EXCEPT ![i].pc = "set"]
    /\ sender_ret' = <<>>
    /\ UNCHANGED <<sender, add, cs, rn, clock, sender_fault>>
    /\ UNCHANGED <<sdp_vars, element_vars>>

\* on_connect.await returns in the task: with an error the task logs it
\* and ends.
TaskAwait(i) ==
    /\ sender_fault = None
    /\ spawned[i].pc = "await"
    /\ spawned[i].on_connect # "open"
    /\ spawned' = [spawned EXCEPT
                      ![i].pc = IF spawned[i].on_connect = "sent" THEN "set" ELSE "ended"]
    /\ sender_ret' = <<>>
    /\ UNCHANGED <<sender, add, cs, rn, clock, sender_fault>>
    /\ UNCHANGED <<sdp_vars, element_vars>>

\* The task sets async_complete.
TaskSetComplete(i) ==
    /\ sender_fault = None
    /\ spawned[i].pc = "set"
    /\ sender' = [sender EXCEPT !.async_complete = TRUE]
    /\ spawned' = [spawned EXCEPT ![i].pc = "clock"]
    /\ sender_ret' = <<>>
    /\ UNCHANGED <<add, cs, rn, clock, sender_fault>>
    /\ UNCHANGED <<sdp_vars, element_vars>>

\* change_state(PausedToPlaying), first critical section: the clock is set
\* when there is a duration.
ClockAfter == IF sender.duration # None THEN sender.duration ELSE clock

\* change_state(PausedToPlaying), second critical section, and the rest of
\* change_state: Async without the parent while async_complete is false,
\* the parent's result otherwise.
Gate(by, transition, r) ==
    IF transition = "PausedToPlaying" /\ ~sender.async_complete
    THEN Changed(by, transition, FALSE, Ok("Async"))
    ELSE Changed(by, transition, TRUE, r)

\* The task calls change_state(PausedToPlaying): first critical section.
TaskClock(i) ==
    /\ sender_fault = None
    /\ spawned[i].pc = "clock"
    /\ clock' = ClockAfter
    /\ spawned' = [spawned EXCEPT ![i].pc = "gate"]
    /\ sender_ret' = <<>>
    /\ UNCHANGED <<sender, add, cs, rn, sender_fault>>
    /\ UNCHANGED <<sdp_vars, element_vars>>

\* The task's change_state returns and the task unwraps the result.
TaskGate(i) ==
    /\ sender_fault = None
    /\ spawned[i].pc = "gate"
    /\ \E r \in ParentResults :
          /\ sender_ret' = Gate("task", "PausedToPlaying", r)
          /\ IF IsOk(sender_ret'.val)
             THEN /\ spawned' = [spawned EXCEPT ![i].pc = "ended"]
                  /\ UNCHANGED sender_fault
             ELSE /\ sender_fault' = Some(<<"task", "unwrap on Err">>)
                  /\ UNCHANGED spawned
    /\ UNCHANGED <<sender, add, cs, rn, clock>>
    /\ UNCHANGED <<sdp_vars, element_vars>>

\* The application calls change_state: the first critical section of
\* PausedToPlaying, or the parent's transition for the others.
ChangeState(transition) ==
    /\ sender_fault = None
    /\ cs.pc = "idle"
    /\ IF transition = "PausedToPlaying"
       THEN /\ clock' = ClockAfter
            /\ cs' = [pc |-> "gate", transition |-> transition]
            /\ sender_ret' = <<>>
       ELSE /\ \E r \in ParentResults : sender_ret' = Gate("application", transition, r)
            /\ UNCHANGED <<clock, cs>>
    /\ UNCHANGED <<sender, add, spawned, rn, sender_fault>>
    /\ UNCHANGED <<sdp_vars, element_vars>>

\* The application's change_state(PausedToPlaying) returns.
ChangeStateGate ==
    /\ sender_fault = None
    /\ cs.pc = "gate"
    /\ \E r \in ParentResults : sender_ret' = Gate("application", cs.transition, r)
    /\ cs' = Idle
    /\ UNCHANGED <<sender, add, spawned, rn, clock, sender_fault>>
    /\ UNCHANGED <<sdp_vars, element_vars>>

\* render, first critical section: the media type; an audio buffer needs
\* a duration.
RenderMediaType(buffer_duration) ==
    /\ sender_fault = None
    /\ rn.pc = "idle"
    /\ IF sender.media_type = None THEN SenderFaults("render", "media_type is None")
       ELSE IF sender.media_type = Some("Audio") /\ buffer_duration = None
       THEN SenderFaults("render", "buffer duration is None")
       ELSE /\ rn' = [pc |-> "duration", buffer_duration |-> buffer_duration]
            /\ sender_ret' = <<>>
            /\ UNCHANGED <<sender, add, spawned, cs, clock, sender_fault>>
    /\ UNCHANGED <<sdp_vars, element_vars>>

\* render, second critical section: is there a duration?
RenderDurationCheck ==
    /\ sender_fault = None
    /\ rn.pc = "duration"
    /\ rn' = [rn EXCEPT !.pc = IF sender.duration = None THEN "insert" ELSE "handle"]
    /\ sender_ret' = <<>>
    /\ UNCHANGED <<sender, add, spawned, cs, clock, sender_fault>>
    /\ UNCHANGED <<sdp_vars, element_vars>>

\* render, third critical section: the buffer's duration becomes the
\* sender's and the clock is set from it.
RenderDurationInsert ==
    /\ sender_fault = None
    /\ rn.pc = "insert"
    /\ IF rn.buffer_duration = None THEN SenderFaults("render", "buffer duration is None")
       ELSE /\ sender' = [sender EXCEPT !.duration = rn.buffer_duration]
            /\ clock' = rn.buffer_duration
            /\ rn' = [rn EXCEPT !.pc = "handle"]
            /\ sender_ret' = <<>>
            /\ UNCHANGED <<add, spawned, cs, sender_fault>>
    /\ UNCHANGED <<sdp_vars, element_vars>>

\* render, fourth critical section: the runtime handle.
RenderHandle ==
    /\ sender_fault = None
    /\ rn.pc = "handle"
    /\ IF sender.handle = None THEN SenderFaults("render", "handle is None")
       ELSE /\ rn' = [rn EXCEPT !.pc = "track"]
            /\ sender_ret' = <<>>
            /\ UNCHANGED <<sender, add, spawned, cs, clock, sender_fault>>
    /\ UNCHANGED <<sdp_vars, element_vars>>

\* render, last critical section: the track, to which the sample is
\* written.
RenderTrack ==
    /\ sender_fault = None
    /\ rn.pc = "track"
    /\ IF sender.track = None THEN SenderFaults("render", "track is None")
       ELSE /\ rn' = Idle
            /\ sender_ret' = <<>>
            /\ UNCHANGED <<sender, add, spawned, cs, clock, sender_fault>>
    /\ UNCHANGED <<sdp_vars, element_vars>>

SenderNext ==
    \/ \E media_type \in SenderMediaTypes, duration \in ClockTimes :
          AddInfoTrack(media_type, duration)
    \/ AddInfoMediaType
    \/ AddInfoDuration
    \/ AddInfoSpawn
    \/ AddInfoHandle
    \/ \E i \in DOMAIN spawned, outcome \in {"sent", "closed"} : OnConnect(i, outcome)
    \/ \E i \in DOMAIN spawned : TaskAwait(i)
    \/ \E i \in DOMAIN spawned : TaskSetComplete(i)
    \/ \E i \in DOMAIN spawned : TaskClock(i)
    \/ \E i \in DOMAIN spawned : TaskGate(i)
    \/ \E transition \in Transitions : ChangeState(transition)
    \/ ChangeStateGate
    \/ \E buffer_duration \in ClockTimes : RenderMediaType(buffer_duration)
    \/ RenderDurationCheck
    \/ RenderDurationInsert
    \/ RenderHandle
    \/ RenderTrack

SenderSpec == SenderInit /\ [][SenderNext]_vars


\* A step in which a change_state(PausedToPlaying) call returns.
PlayingReturns == sender_ret' # <<>> /\ sender_ret'.transition = "PausedToPlaying"

\* C27: sender Paused->Playing gating.  change_state(PausedToPlaying)
\* returns Async without the parent transition when it finds
\* async_complete false, and passes the transition to the parent when it
\* finds it true; async_complete is set only by a task that has received
\* the signal of its on_connect channel; that task then calls
\* change_state(PausedToPlaying), which is passed to the parent;
\* async_complete is never reset; a task whose channel was closed without
\* a signal ends without setting it.
C27_SenderGating ==
    [][/\ PlayingReturns =>
             IF sender.async_complete
             THEN sender_ret'.parent
             ELSE ~sender_ret'.parent /\ sender_ret'.val = Ok("Async")
       /\ (sender'.async_complete /\ ~sender.async_complete) =>
             \E i \in DOMAIN spawned :
                /\ spawned[i].on_connect = "sent"
                /\ spawned[i].pc = "set"
                /\ spawned'[i].pc = "clock"
       /\ \A i \in DOMAIN spawned :
             /\ (spawned[i].pc = "clock" /\ spawned'[i] # spawned[i])
                   => spawned'[i].pc = "gate"
             /\ (spawned[i].pc = "gate"
                 /\ (spawned'[i] # spawned[i]
                        \/ sender_fault' = Some(<<"task", "unwrap on Err">>)))
                   => /\ PlayingReturns
                      /\ sender_ret'.by = "task"
                      /\ sender_ret'.parent
             /\ spawned[i].on_connect = "closed" =>
                   /\ spawned'[i].on_connect = "closed"
                   /\ spawned'[i].pc \in {"await", "ended"}
       /\ sender.async_complete => sender'.async_complete]_vars

\* A task has received the signal, has set async_complete, and its
\* change_state(PausedToPlaying) was passed to the parent.
C27_Witness ==
    /\ sender.async_complete
    /\ sender_ret # <<>>
    /\ sender_ret.by = "task"
    /\ sender_ret.parent
    /\ sender_fault = None

=============================================================================
